---- MODULE Spec2Model ----
(***************************************************************************)
(* AES block cipher (128/192/256-bit keys), its ECB, CBC and CTR modes and *)
(* PKCS#7 padding, as implemented in src/cipher/aes.rs and src/padding.rs. *)
(* Bytes are integers 0..255.  Rust arrays and vectors are sequences, so   *)
(* index i of the source is index i+1 here.                                *)
(***************************************************************************)
EXTENDS Integers, Sequences, FiniteSets, TLC

VARIABLES
    overflow_checks,  \* build profile: TRUE = integer overflow panics (debug)
    key,              \* the caller's AesKey: its raw key bytes (16, 24 or 32)
    input,            \* the caller's input buffer
    calls,            \* the calls made so far, oldest first
    iv,               \* the IV buffer the caller keeps across calls (<<>>: none,
                      \* each call is handed an IV of its own)
    locals            \* the local variables of the call that is running

vars == <<overflow_checks, key, input, calls, iv, locals>>

-----------------------------------------------------------------------------
(* u8 arithmetic *)

RECURSIVE XorBits(_, _, _)
XorBits(a, b, n) ==
    IF n = 0 THEN 0
    ELSE (((a % 2) + (b % 2)) % 2) + 2 * XorBits(a \div 2, b \div 2, n - 1)

\* The 256 x 256 table of a ^ b, evaluated once.
XorTable ==
    [a \in 1..256 |-> [b \in 1..256 |-> XorBits(a - 1, b - 1, 8)] \o <<>>] \o <<>>

\* a ^ b on u8
Xor(a, b) == XorTable[a + 1][b + 1]

\* x << 1 on u8: the bit shifted out is lost
Shl1(x) == (2 * x) % 256

\* y & mask != 0 for a one-bit mask
BitSet(y, mask) == (y \div mask) % 2 = 1

\* a sequence given as a function on 1..n, evaluated to a tuple
Strict(f) == f \o <<>>

-----------------------------------------------------------------------------
(* substitution boxes: row = high nibble, column = low nibble *)

SBOX ==
    <<
       << 99, 124, 119, 123, 242, 107, 111, 197,
          48,   1, 103,  43, 254, 215, 171, 118>>,
       <<202, 130, 201, 125, 250,  89,  71, 240,
         173, 212, 162, 175, 156, 164, 114, 192>>,
       <<183, 253, 147,  38,  54,  63, 247, 204,
          52, 165, 229, 241, 113, 216,  49,  21>>,
       <<  4, 199,  35, 195,  24, 150,   5, 154,
           7,  18, 128, 226, 235,  39, 178, 117>>,
       <<  9, 131,  44,  26,  27, 110,  90, 160,
          82,  59, 214, 179,  41, 227,  47, 132>>,
       << 83, 209,   0, 237,  32, 252, 177,  91,
         106, 203, 190,  57,  74,  76,  88, 207>>,
       <<208, 239, 170, 251,  67,  77,  51, 133,
          69, 249,   2, 127,  80,  60, 159, 168>>,
       << 81, 163,  64, 143, 146, 157,  56, 245,
         188, 182, 218,  33,  16, 255, 243, 210>>,
       <<205,  12,  19, 236,  95, 151,  68,  23,
         196, 167, 126,  61, 100,  93,  25, 115>>,
       << 96, 129,  79, 220,  34,  42, 144, 136,
          70, 238, 184,  20, 222,  94,  11, 219>>,
       <<224,  50,  58,  10,  73,   6,  36,  92,
         194, 211, 172,  98, 145, 149, 228, 121>>,
       <<231, 200,  55, 109, 141, 213,  78, 169,
         108,  86, 244, 234, 101, 122, 174,   8>>,
       <<186, 120,  37,  46,  28, 166, 180, 198,
         232, 221, 116,  31,  75, 189, 139, 138>>,
       <<112,  62, 181, 102,  72,   3, 246,  14,
          97,  53,  87, 185, 134, 193,  29, 158>>,
       <<225, 248, 152,  17, 105, 217, 142, 148,
         155,  30, 135, 233, 206,  85,  40, 223>>,
       <<140, 161, 137,  13, 191, 230,  66, 104,
          65, 153,  45,  15, 176,  84, 187,  22>>
    >>

INV_SBOX ==
    <<
       << 82,   9, 106, 213,  48,  54, 165,  56,
         191,  64, 163, 158, 129, 243, 215, 251>>,
       <<124, 227,  57, 130, 155,  47, 255, 135,
          52, 142,  67,  68, 196, 222, 233, 203>>,
       << 84, 123, 148,  50, 166, 194,  35,  61,
         238,  76, 149,  11,  66, 250, 195,  78>>,
       <<  8,  46, 161, 102,  40, 217,  36, 178,
         118,  91, 162,  73, 109, 139, 209,  37>>,
       <<114, 248, 246, 100, 134, 104, 152,  22,
         212, 164,  92, 204,  93, 101, 182, 146>>,
       <<108, 112,  72,  80, 253, 237, 185, 218,
          94,  21,  70,  87, 167, 141, 157, 132>>,
       <<144, 216, 171,   0, 140, 188, 211,  10,
         247, 228,  88,   5, 184, 179,  69,   6>>,
       <<208,  44,  30, 143, 202,  63,  15,   2,
         193, 175, 189,   3,   1,  19, 138, 107>>,
       << 58, 145,  17,  65,  79, 103, 220, 234,
         151, 242, 207, 206, 240, 180, 230, 115>>,
       <<150, 172, 116,  34, 231, 173,  53, 133,
         226, 249,  55, 232,  28, 117, 223, 110>>,
       << 71, 241,  26, 113,  29,  41, 197, 137,
         111, 183,  98,  14, 170,  24, 190,  27>>,
       <<252,  86,  62,  75, 198, 210, 121,  32,
         154, 219, 192, 254, 120, 205,  90, 244>>,
       << 31, 221, 168,  51, 136,   7, 199,  49,
         177,  18,  16,  89,  39, 128, 236,  95>>,
       << 96,  81, 127, 169,  25, 181,  74,  13,
          45, 229, 122, 159, 147, 201, 156, 239>>,
       <<160, 224,  59,  77, 174,  42, 245, 176,
         200, 235, 187,  60, 131,  83, 153,  97>>,
       << 23,  43,   4, 126, 186, 119, 214,  38,
         225, 105,  20,  99,  85,  33,  12, 125>>
    >>

sbox_lookup(x) == SBOX[(x \div 16) + 1][(x % 16) + 1]

\* INV_SBOX indexed with row = low nibble, column = high nibble
inv_sbox_lookup_transposed(x) == INV_SBOX[(x % 16) + 1][(x \div 16) + 1]

inv_sbox_lookup(x) == INV_SBOX[(x \div 16) + 1][(x % 16) + 1]

-----------------------------------------------------------------------------
(* key schedule *)

rot_word(w) == <<w[2], w[3], w[4], w[1]>>

sub_word(w) ==
    <<sbox_lookup(w[1]), sbox_lookup(w[2]), sbox_lookup(w[3]), sbox_lookup(w[4])>>

XorWord(a, b) ==
    <<Xor(a[1], b[1]), Xor(a[2], b[2]), Xor(a[3], b[3]), Xor(a[4], b[4])>>

\* let mut w = [[0u8; 4]; 60]
ZeroSchedule == [i \in 1..60 |-> <<0, 0, 0, 0>>]

\* first loop of compute_key_schedule: w[i / 4][i % 4] = key[i]
CopyKey(k, w) ==
    Strict([j \in 1..Len(w) |->
        Strict([c \in 1..4 |->
            IF 4 * (j - 1) + c <= Len(k) THEN k[4 * (j - 1) + c] ELSE w[j][c]])])

\* one pass of the second loop of compute_key_schedule, for word index i
\* (0-based as in the source); yields the new w and rcon
ScheduleStep(w, i, rcon, keywords) ==
    LET prev == w[i]                       \* w[i] = w[i-1]
        rc   == IF i % 36 = 0 THEN 27 ELSE rcon
        rs   == sub_word(rot_word(prev))
        t    == IF i % keywords = 0
                THEN <<Xor(rs[1], rc), rs[2], rs[3], rs[4]>>
                ELSE IF keywords > 6 /\ i % keywords = 4
                     THEN sub_word(prev)
                     ELSE prev
    IN  [w    |-> [w EXCEPT ![i + 1] = XorWord(t, w[i + 1 - keywords])],
         rcon |-> IF i % keywords = 0 THEN Shl1(rc) ELSE rcon]

RECURSIVE ScheduleLoop(_, _, _, _)
ScheduleLoop(w, i, rcon, keywords) ==
    IF i >= 4 * (keywords + 7) THEN w
    ELSE LET s == ScheduleStep(w, i, rcon, keywords)
         IN  CASE s.rcon < 256 ->    \* s is evaluated here, once
                 ScheduleLoop(s.w, i + 1, s.rcon, keywords)

compute_key_schedule(k, w) ==
    ScheduleLoop(CopyKey(k, w), Len(k) \div 4, 1, Len(k) \div 4)

-----------------------------------------------------------------------------
(* block transform *)

\* state[r][c] ^ w[c][r]
add_round_key(state, w) ==
    <<<<Xor(state[1][1], w[1][1]), Xor(state[1][2], w[2][1]),
        Xor(state[1][3], w[3][1]), Xor(state[1][4], w[4][1])>>,
      <<Xor(state[2][1], w[1][2]), Xor(state[2][2], w[2][2]),
        Xor(state[2][3], w[3][2]), Xor(state[2][4], w[4][2])>>,
      <<Xor(state[3][1], w[1][3]), Xor(state[3][2], w[2][3]),
        Xor(state[3][3], w[3][3]), Xor(state[3][4], w[4][3])>>,
      <<Xor(state[4][1], w[1][4]), Xor(state[4][2], w[2][4]),
        Xor(state[4][3], w[3][4]), Xor(state[4][4], w[4][4])>>>>

sub_bytes(state) ==
    <<sub_word(state[1]), sub_word(state[2]), sub_word(state[3]), sub_word(state[4])>>

shift_rows(state) ==
    <<state[1],
      <<state[2][2], state[2][3], state[2][4], state[2][1]>>,
      <<state[3][3], state[3][4], state[3][1], state[3][2]>>,
      <<state[4][4], state[4][1], state[4][2], state[4][3]>>>>

\* xtime without the reduction by 0x1b
xtime_unreduced(x) == Shl1(x)

xtime(x) == Xor(Shl1(x), IF x >= 128 THEN 27 ELSE 0)

\* the loop of dot stopping before the bit 0x80 of y
RECURSIVE DotLoop_seven_bits(_, _, _, _)
DotLoop_seven_bits(x, y, product, mask) ==
    IF mask = 0 \/ mask = 128 THEN product
    ELSE DotLoop_seven_bits(xtime(x), y,
                            IF BitSet(y, mask) THEN Xor(product, x) ELSE product,
                            Shl1(mask))

\* the values of x, product and mask after each pass of the loop of dot
RECURSIVE DotIterations(_, _, _, _)
DotIterations(x, y, product, mask) ==
    IF mask = 0 THEN <<>>
    ELSE LET p == IF BitSet(y, mask) THEN Xor(product, x) ELSE product
         IN  <<[x |-> xtime(x), product |-> p, mask |-> Shl1(mask)]>>
                 \o DotIterations(xtime(x), y, p, Shl1(mask))

RECURSIVE DotLoop(_, _, _, _)
DotLoop(x, y, product, mask) ==
    IF mask = 0 THEN product
    ELSE DotLoop(xtime(x), y,
                 IF BitSet(y, mask) THEN Xor(product, x) ELSE product,
                 Shl1(mask))

dot(xin, y) == DotLoop(xin, y, 0, 1)

\* dot(c, y) for the multipliers c <= 14 of the two column mixes, evaluated once
DotTable == Strict([c \in 1..14 |-> Strict([y \in 1..256 |-> dot(c, y - 1)])])

Mul(c, y) == DotTable[c][y + 1]

Xor4(a, b, c, d) == Xor(Xor(Xor(a, b), c), d)

\* the array t of mix_columns for the column (s0, s1, s2, s3)
MixColumn(s0, s1, s2, s3) ==
    <<Xor4(Mul(2, s0), Mul(3, s1), s2, s3),
      Xor4(s0, Mul(2, s1), Mul(3, s2), s3),
      Xor4(s0, s1, Mul(2, s2), Mul(3, s3)),
      Xor4(Mul(3, s0), s1, s2, Mul(2, s3))>>

\* the state whose column c is t[c]
FromColumns(t) ==
    <<<<t[1][1], t[2][1], t[3][1], t[4][1]>>,
      <<t[1][2], t[2][2], t[3][2], t[4][2]>>,
      <<t[1][3], t[2][3], t[3][3], t[4][3]>>,
      <<t[1][4], t[2][4], t[3][4], t[4][4]>>>>

mix_columns(s) ==
    FromColumns(<<MixColumn(s[1][1], s[2][1], s[3][1], s[4][1]),
                  MixColumn(s[1][2], s[2][2], s[3][2], s[4][2]),
                  MixColumn(s[1][3], s[2][3], s[3][3], s[4][3]),
                  MixColumn(s[1][4], s[2][4], s[3][4], s[4][4])>>)

\* state[r][c] = input[r + (4 * c)]
LoadState(b) ==
    <<<<b[1], b[5], b[9],  b[13]>>,
      <<b[2], b[6], b[10], b[14]>>,
      <<b[3], b[7], b[11], b[15]>>,
      <<b[4], b[8], b[12], b[16]>>>>

\* output[r + (4 * c)] = state[r][c]
StoreState(s) ==
    <<s[1][1], s[2][1], s[3][1], s[4][1],
      s[1][2], s[2][2], s[3][2], s[4][2],
      s[1][3], s[2][3], s[3][3], s[4][3],
      s[1][4], s[2][4], s[3][4], s[4][4]>>

\* &w[a*4 .. (a+1)*4]
RoundKey(w, a) == <<w[4 * a + 1], w[4 * a + 2], w[4 * a + 3], w[4 * a + 4]>>

\* the body of the round loop of encrypt_block
EncryptRound(state, w, nr, round) ==
    LET s1 == shift_rows(sub_bytes(state))
        s2 == IF round < nr - 1 THEN mix_columns(s1) ELSE s1
    IN  add_round_key(s2, RoundKey(w, round + 1))

RECURSIVE EncryptRounds(_, _, _, _)
EncryptRounds(state, w, nr, round) ==
    IF round >= nr THEN state
    ELSE LET s == EncryptRound(state, w, nr, round)
         IN  CASE Len(s) = 4 ->    \* s is evaluated here, once
                 EncryptRounds(s, w, nr, round + 1)

encrypt_block(w, nr, b) ==
    StoreState(EncryptRounds(add_round_key(LoadState(b), RoundKey(w, 0)), w, nr, 0))

\* inv_shift_rows rotating the rows the way shift_rows does
inv_shift_rows_forward(state) == shift_rows(state)

inv_shift_rows(state) ==
    <<state[1],
      <<state[2][4], state[2][1], state[2][2], state[2][3]>>,
      <<state[3][3], state[3][4], state[3][1], state[3][2]>>,
      <<state[4][2], state[4][3], state[4][4], state[4][1]>>>>

InvSubRow(r) ==
    <<inv_sbox_lookup(r[1]), inv_sbox_lookup(r[2]),
      inv_sbox_lookup(r[3]), inv_sbox_lookup(r[4])>>

inv_sub_bytes(state) ==
    <<InvSubRow(state[1]), InvSubRow(state[2]), InvSubRow(state[3]), InvSubRow(state[4])>>

\* the array t of inv_mix_columns for the column (s0, s1, s2, s3)
InvMixColumn(s0, s1, s2, s3) ==
    <<Xor4(Mul(14, s0), Mul(11, s1), Mul(13, s2), Mul(9, s3)),
      Xor4(Mul(9, s0), Mul(14, s1), Mul(11, s2), Mul(13, s3)),
      Xor4(Mul(13, s0), Mul(9, s1), Mul(14, s2), Mul(11, s3)),
      Xor4(Mul(11, s0), Mul(13, s1), Mul(9, s2), Mul(14, s3))>>

inv_mix_columns(s) ==
    FromColumns(<<InvMixColumn(s[1][1], s[2][1], s[3][1], s[4][1]),
                  InvMixColumn(s[1][2], s[2][2], s[3][2], s[4][2]),
                  InvMixColumn(s[1][3], s[2][3], s[3][3], s[4][3]),
                  InvMixColumn(s[1][4], s[2][4], s[3][4], s[4][4])>>)

\* the body of the round loop of decrypt_block
DecryptRound(state, w, round) ==
    LET s1 == add_round_key(inv_sub_bytes(inv_shift_rows(state)), RoundKey(w, round - 1))
    IN  IF round > 1 THEN inv_mix_columns(s1) ELSE s1

RECURSIVE DecryptRounds(_, _, _)
DecryptRounds(state, w, round) ==
    IF round <= 0 THEN state
    ELSE LET s == DecryptRound(state, w, round)
         IN  CASE Len(s) = 4 ->    \* s is evaluated here, once
                 DecryptRounds(s, w, round - 1)

decrypt_block(w, nr, b) ==
    StoreState(DecryptRounds(add_round_key(LoadState(b), RoundKey(w, nr)), w, nr))

\* one round more than the key size has
Rounds_one_more(k) == (Len(k) \div 4) + 7

\* nr = (keysize >> 2) + 6
Rounds(k) == (Len(k) \div 4) + 6

KeySchedule(k) == compute_key_schedule(k, ZeroSchedule)

-----------------------------------------------------------------------------
(* results of a call: a value, or a panic that aborts the caller *)

Ok(val) == [kind |-> "ok", val |-> val, reason |-> ""]

Panic(reason) == [kind |-> "panic", val |-> <<>>, reason |-> reason]

-----------------------------------------------------------------------------
(* single-block operations *)

encrypt(k, b) == encrypt_block(KeySchedule(k), Rounds(k), b)

decrypt(k, b) == decrypt_block(KeySchedule(k), Rounds(k), b)

\* compute_key_schedule on a byte slice of any length and a schedule buffer
\* w: it returns nothing and reports nothing; it panics when the copy of the
\* key or the expansion leaves w, and when keywords = 0 makes w[i-1] with
\* i = 0 underflow (checked) or index usize::MAX (unchecked)
compute_key_schedule_result(k, w, checks) ==
    LET keywords == Len(k) \div 4
    IN  IF Len(k) > 4 * Len(w) THEN Panic("index out of bounds")
        ELSE IF keywords = 0
        THEN Panic(IF checks THEN "attempt to subtract with overflow"
                             ELSE "index out of bounds")
        ELSE IF 4 * (keywords + 7) > Len(w) THEN Panic("index out of bounds")
        ELSE Ok(compute_key_schedule(k, w))

-----------------------------------------------------------------------------
(* PKCS#7 padding *)

\* padding as u8
AsU8(n) == n % 256

\* pad that adds nothing to a buffer that is already a multiple of block_size
pad_unaligned_only(b, block_size) ==
    LET padding == (block_size - (Len(b) % block_size)) % block_size
    IN  b \o Strict([i \in 1..padding |-> AsU8(padding)])

\* pad writing padding - 1 into the padding bytes
pad_counting_from_zero(b, block_size) ==
    LET padding == block_size - (Len(b) % block_size)
    IN  b \o Strict([i \in 1..padding |-> AsU8(padding - 1)])

pad(b, block_size) ==
    LET padding == block_size - (Len(b) % block_size)
    IN  b \o Strict([i \in 1..padding |-> AsU8(padding)])

\* Unpad keeping one byte of the padding
Unpad_keeps_one(result, checks) ==
    LET res_len == Len(result)
    IN  IF res_len = 0 THEN Panic("index out of bounds")
        ELSE IF result[res_len] > res_len THEN Ok(result)
        ELSE Ok(SubSeq(result, 1, res_len - result[res_len] + 1))

\* Unpad removing the padding only when all its bytes equal its length
Unpad_validating(result, checks) ==
    LET res_len == Len(result)
    IN  IF res_len = 0 THEN Panic("index out of bounds")
        ELSE LET padding_len == result[res_len]
             IN  IF padding_len > res_len THEN Ok(result)
                 ELSE IF \A i \in (res_len - padding_len + 1)..res_len :
                             result[i] = padding_len
                      THEN Ok(SubSeq(result, 1, res_len - padding_len))
                      ELSE Ok(result)

\* The last three statements of decrypt_ecb and of decrypt_cbc.  With
\* overflow checks res_len - 1 and res_len - padding_len panic when they
\* underflow; without them they wrap, result[usize::MAX] is out of bounds
\* and truncate() to more than the length leaves the vector as it is.
Unpad(result, checks) ==
    LET res_len == Len(result)
    IN  IF res_len = 0
        THEN Panic(IF checks THEN "attempt to subtract with overflow"
                             ELSE "index out of bounds")
        ELSE LET padding_len == result[res_len]
             IN  IF padding_len > res_len
                 THEN IF checks THEN Panic("attempt to subtract with overflow")
                                ELSE Ok(result)
                 ELSE Ok(SubSeq(result, 1, res_len - padding_len))

-----------------------------------------------------------------------------
(* modes of operation *)

\* number of chunks of buf.chunks(16)
NumChunks(buf) == (Len(buf) + 15) \div 16

\* chunk number n (from 1) of buf.chunks(16): the last one may be short
Chunk(buf, n) ==
    SubSeq(buf, 16 * n - 15, IF 16 * n <= Len(buf) THEN 16 * n ELSE Len(buf))

\* the blocks pushed one after the other on the result vector
Concat(blocks) ==
    Strict([i \in 1..(16 * Len(blocks)) |-> blocks[((i - 1) \div 16) + 1][((i - 1) % 16) + 1]])

XorBlock(a, b) == Strict([x \in 1..16 |-> Xor(a[x], b[x])])

\* encrypt_ecb mixing the previous plaintext block into each block
encrypt_ecb_mixing_previous(k, plaintext) ==
    LET padded_plaintext == pad(plaintext, 16)
        w  == KeySchedule(k)
        nr == Rounds(k)
    IN  Concat(Strict([n \in 1..NumChunks(padded_plaintext) |->
            encrypt_block(w, nr,
                IF n = 1 THEN Chunk(padded_plaintext, 1)
                ELSE XorBlock(Chunk(padded_plaintext, n), Chunk(padded_plaintext, n - 1)))]))

encrypt_ecb(k, plaintext) ==
    LET padded_plaintext == pad(plaintext, 16)
        w  == KeySchedule(k)
        nr == Rounds(k)
    IN  Concat(Strict([n \in 1..NumChunks(padded_plaintext) |->
            encrypt_block(w, nr, Chunk(padded_plaintext, n))]))

\* decrypt_ecb calling encrypt_block on each chunk
DecryptEcbBlocks_encrypting(k, ciphertext) ==
    LET w  == KeySchedule(k)
        nr == Rounds(k)
    IN  Concat(Strict([n \in 1..NumChunks(ciphertext) |->
            encrypt_block(w, nr, Chunk(ciphertext, n))]))

\* the result vector of decrypt_ecb after its loop, before unpadding
DecryptEcbBlocks(k, ciphertext) ==
    LET w  == KeySchedule(k)
        nr == Rounds(k)
    IN  Concat(Strict([n \in 1..NumChunks(ciphertext) |->
            decrypt_block(w, nr, Chunk(ciphertext, n))]))

decrypt_ecb(k, ciphertext, checks) ==
    IF \E n \in 1..NumChunks(ciphertext) : Len(Chunk(ciphertext, n)) < 16
    THEN Panic("index out of bounds")    \* input[x] = chunk[x] on a short chunk
    ELSE Unpad(DecryptEcbBlocks(k, ciphertext), checks)

\* the loop of encrypt_cbc chaining on the block it fed to the cipher
RECURSIVE EncryptCbcLoop_chain_input(_, _, _, _, _, _)
EncryptCbcLoop_chain_input(w, nr, padded_plaintext, n, r, result) ==
    IF n > NumChunks(padded_plaintext) THEN result
    ELSE LET input_block == XorBlock(Chunk(padded_plaintext, n), r)
             output      == encrypt_block(w, nr, input_block)
         IN  CASE Len(output) = 16 ->
                 EncryptCbcLoop_chain_input(w, nr, padded_plaintext, n + 1,
                                            input_block, result \o output)

\* the loop of encrypt_cbc that never replaces the chaining value
RECURSIVE EncryptCbcLoop_keep_iv(_, _, _, _, _, _)
EncryptCbcLoop_keep_iv(w, nr, padded_plaintext, n, r, result) ==
    IF n > NumChunks(padded_plaintext) THEN result
    ELSE LET output == encrypt_block(w, nr, XorBlock(Chunk(padded_plaintext, n), r))
         IN  CASE Len(output) = 16 ->
                 EncryptCbcLoop_keep_iv(w, nr, padded_plaintext, n + 1, r, result \o output)

\* the loop of encrypt_cbc from chunk n on; r is the chaining value
RECURSIVE EncryptCbcLoop(_, _, _, _, _, _)
EncryptCbcLoop(w, nr, padded_plaintext, n, r, result) ==
    IF n > NumChunks(padded_plaintext) THEN result
    ELSE LET output == encrypt_block(w, nr, XorBlock(Chunk(padded_plaintext, n), r))
         IN  CASE Len(output) = 16 ->    \* output is evaluated here, once
                 EncryptCbcLoop(w, nr, padded_plaintext, n + 1, output, result \o output)

\* encrypt_cbc chaining the first block on the first 16 key bytes, not the IV
encrypt_cbc_key_as_iv(k, v, plaintext) ==
    EncryptCbcLoop(KeySchedule(k), Rounds(k), pad(plaintext, 16), 1, SubSeq(k, 1, 16), <<>>)

encrypt_cbc(k, v, plaintext) ==
    EncryptCbcLoop(KeySchedule(k), Rounds(k), pad(plaintext, 16), 1, v, <<>>)

\* the loop of decrypt_cbc chaining on the plaintext block it produced
RECURSIVE DecryptCbcLoop_chain_plain(_, _, _, _, _, _)
DecryptCbcLoop_chain_plain(w, nr, ciphertext, n, r, result) ==
    IF n > NumChunks(ciphertext) THEN result
    ELSE LET chunk == Chunk(ciphertext, n)
             out   == XorBlock(decrypt_block(w, nr, chunk), r)
         IN  CASE Len(out) = 16 ->
                 DecryptCbcLoop_chain_plain(w, nr, ciphertext, n + 1, out, result \o out)

\* the loop of decrypt_cbc that never replaces the chaining value
RECURSIVE DecryptCbcLoop_keep_iv(_, _, _, _, _, _)
DecryptCbcLoop_keep_iv(w, nr, ciphertext, n, r, result) ==
    IF n > NumChunks(ciphertext) THEN result
    ELSE LET out == XorBlock(decrypt_block(w, nr, Chunk(ciphertext, n)), r)
         IN  CASE Len(out) = 16 ->
                 DecryptCbcLoop_keep_iv(w, nr, ciphertext, n + 1, r, result \o out)

\* the loop of decrypt_cbc from chunk n on; r is the chaining value
RECURSIVE DecryptCbcLoop(_, _, _, _, _, _)
DecryptCbcLoop(w, nr, ciphertext, n, r, result) ==
    IF n > NumChunks(ciphertext) THEN result
    ELSE LET chunk == Chunk(ciphertext, n)
             out   == XorBlock(decrypt_block(w, nr, chunk), r)
         IN  CASE Len(out) = 16 ->    \* out is evaluated here, once
                 DecryptCbcLoop(w, nr, ciphertext, n + 1, chunk, result \o out)

\* the result vector of decrypt_cbc after its loop, before unpadding
DecryptCbcBlocks(k, v, ciphertext) ==
    DecryptCbcLoop(KeySchedule(k), Rounds(k), ciphertext, 1, v, <<>>)

decrypt_cbc(k, v, ciphertext, checks) ==
    IF \E n \in 1..NumChunks(ciphertext) : Len(Chunk(ciphertext, n)) < 16
    THEN Panic("index out of bounds")    \* input[x] = chunk[x] on a short chunk
    ELSE Unpad(DecryptCbcBlocks(k, v, ciphertext), checks)

\* A u64 is kept as four 16-bit limbs, most significant first.
\* read_u64::<BigEndian> of the 8 bytes b[from .. from + 7]
ReadU64(b, from) ==
    <<256 * b[from]     + b[from + 1], 256 * b[from + 2] + b[from + 3],
      256 * b[from + 4] + b[from + 5], 256 * b[from + 6] + b[from + 7]>>

\* write_u64::<BigEndian>
WriteU64(v) ==
    <<v[1] \div 256, v[1] % 256, v[2] \div 256, v[2] % 256,
      v[3] \div 256, v[3] % 256, v[4] \div 256, v[4] % 256>>

U64Max == <<65535, 65535, 65535, 65535>>

\* an increment of the last counter byte only, without carry
WrappingInc_low_byte(v) ==
    <<v[1], v[2], v[3], ((v[4] \div 256) * 256) + ((v[4] + 1) % 256)>>

\* v + 1 modulo 2^64
WrappingInc(v) ==
    IF v[4] < 65535 THEN <<v[1], v[2], v[3], v[4] + 1>>
    ELSE IF v[3] < 65535 THEN <<v[1], v[2], v[3] + 1, 0>>
    ELSE IF v[2] < 65535 THEN <<v[1], v[2] + 1, 0, 0>>
    ELSE IF v[1] < 65535 THEN <<v[1] + 1, 0, 0, 0>>
    ELSE <<0, 0, 0, 0>>

\* chunk[x] ^ output[x] for x in 0..chunk.len()
XorChunk(chunk, output) == Strict([x \in 1..Len(chunk) |-> Xor(chunk[x], output[x])])

\* the loop of encrypt_ctr from chunk n on; ctr += 1 panics on overflow
\* when the build checks overflow and wraps otherwise
RECURSIVE EncryptCtrLoop(_, _, _, _, _, _, _, _)
EncryptCtrLoop(w, nr, nonce, ctr, plaintext, n, result, checks) ==
    IF n > NumChunks(plaintext) THEN Ok(result)
    ELSE IF ctr = U64Max /\ checks THEN Panic("attempt to add with overflow")
    ELSE LET output == encrypt_block(w, nr, WriteU64(nonce) \o WriteU64(ctr))
             out    == XorChunk(Chunk(plaintext, n), output)
         IN  CASE Len(out) <= 16 ->    \* out is evaluated here, once
                 EncryptCtrLoop(w, nr, nonce, WrappingInc(ctr), plaintext, n + 1,
                                result \o out, checks)

encrypt_ctr(k, v, plaintext, checks) ==
    EncryptCtrLoop(KeySchedule(k), Rounds(k), ReadU64(v, 1), ReadU64(v, 9),
                   plaintext, 1, <<>>, checks)

\* the loop of decrypt_ctr from chunk n on
RECURSIVE DecryptCtrLoop(_, _, _, _, _, _, _, _)
DecryptCtrLoop(w, nr, nonce, ctr, ciphertext, n, result, checks) ==
    IF n > NumChunks(ciphertext) THEN Ok(result)
    ELSE IF ctr = U64Max /\ checks THEN Panic("attempt to add with overflow")
    ELSE LET output == encrypt_block(w, nr, WriteU64(nonce) \o WriteU64(ctr))
             out    == XorChunk(Chunk(ciphertext, n), output)
         IN  CASE Len(out) <= 16 ->    \* out is evaluated here, once
                 DecryptCtrLoop(w, nr, nonce, WrappingInc(ctr), ciphertext, n + 1,
                                result \o out, checks)

decrypt_ctr(k, v, ciphertext, checks) ==
    DecryptCtrLoop(KeySchedule(k), Rounds(k), ReadU64(v, 1), ReadU64(v, 9),
                   ciphertext, 1, <<>>, checks)

\* the loop of detect_ecb remembering the previous chunk only
RECURSIVE DetectLoop_adjacent(_, _, _)
DetectLoop_adjacent(input_buf, n, m) ==
    IF n > NumChunks(input_buf) THEN FALSE
    ELSE IF Chunk(input_buf, n) \in m THEN TRUE
    ELSE DetectLoop_adjacent(input_buf, n + 1, {Chunk(input_buf, n)})

\* the loop of detect_ecb that inserts nothing into the set
RECURSIVE DetectLoop_never_inserts(_, _, _)
DetectLoop_never_inserts(input_buf, n, m) ==
    IF n > NumChunks(input_buf) THEN FALSE
    ELSE IF Chunk(input_buf, n) \in m THEN TRUE
    ELSE DetectLoop_never_inserts(input_buf, n + 1, m)

\* the loop of detect_ecb from chunk n on; m is the HashSet of the chunks seen
RECURSIVE DetectLoop(_, _, _)
DetectLoop(input_buf, n, m) ==
    IF n > NumChunks(input_buf) THEN FALSE
    ELSE IF Chunk(input_buf, n) \in m THEN TRUE
    ELSE DetectLoop(input_buf, n + 1, m \cup {Chunk(input_buf, n)})

detect_ecb(input_buf) ==
    IF Len(input_buf) % 16 # 0 THEN FALSE ELSE DetectLoop(input_buf, 1, {})

-----------------------------------------------------------------------------
(* callers: the inputs they draw and the record they keep of each call *)

KeyVariants == 2
BlockVariants == 3
MaxBlocks == 2
MaxPadLen == 3
MaxBlockSize == 3

\* len bytes: base, base + step, base + 2 * step, ... (mod 256)
Ramp(len, base, step) == Strict([i \in 1..len |-> (base + step * (i - 1)) % 256])

\* "YELLOW SUBMARINE"
YellowSubmarine == <<89, 69, 76, 76, 79, 87, 32, 83, 85, 66, 77, 65, 82, 73, 78, 69>>

\* 000102030405060708090a0b0c0d0e0f
TestKey == Ramp(16, 0, 1)

\* keys of the three size classes; variant 0 is 00 01 02 ...
Keys ==
    {Ramp(len, 71 * v, 1 + 6 * v) : len \in {16, 24, 32}, v \in 0..(KeyVariants - 1)}
        \cup {YellowSubmarine}

\* one key of each size class
ModeKeys == {Ramp(len, 0, 1) : len \in {16, 24, 32}}

\* 761ab98c7086c509261f322cb3ffa7d9
Cipher761a ==
    <<118, 26, 185, 140, 112, 134, 197, 9, 38, 31, 50, 44, 179, 255, 167, 217>>

\* 00112233445566778899aabbccddeeff
FipsBlock == Ramp(16, 0, 17)

Blocks ==
    {YellowSubmarine, Cipher761a, FipsBlock}
        \cup {Ramp(16, 83 * v, 29 * v) : v \in 0..(BlockVariants - 1)}

\* buffer lengths around every block boundary up to MaxBlocks blocks
Lengths == {n \in 0..(16 * MaxBlocks + 1) : (n % 16) \in {15, 0, 1}}

\* "Cooller"
Cooller == <<67, 111, 111, 108, 108, 101, 114>>

\* buffers of zeros, of 0xC8, of 'A', the ramp f5 f6 .. ff 00 01 .., and "Cooller"
Buffers ==
    {Ramp(len, f[1], f[2]) : len \in Lengths, f \in {<<0, 0>>, <<200, 0>>, <<65, 0>>, <<245, 1>>}}
        \cup {Cooller}

\* no call is running: the local variables of the last call are gone
NoCall ==
    [fn |-> "none", key |-> <<>>, iv |-> <<>>, arg |-> <<>>, w |-> <<>>, nr |-> 0,
     buf |-> <<>>, n |-> 0, r |-> <<>>, nonce |-> <<>>, ctr |-> <<>>,
     result |-> <<>>, panicked |-> ""]

Call(op, k, v, in, bs, w, out) ==
    [op |-> op, key |-> k, iv |-> v, input |-> in, block_size |-> bs, w |-> w, out |-> out]

\* what a caller may hand to a decryption of the ciphertext c it was given
Received(c) ==
    {c} \cup (IF Len(c) >= 16 THEN {SubSeq(c, 1, Len(c) - 16)} ELSE {})
        \cup (IF Len(c) >= 1 THEN {SubSeq(c, 1, Len(c) - 1)} ELSE {})

-----------------------------------------------------------------------------
(* single blocks *)

InitBlock ==
    /\ overflow_checks \in BOOLEAN
    /\ key \in Keys
    /\ input \in Blocks
    /\ calls = <<>>
    /\ iv = <<>>
    /\ locals = NoCall

Encrypt ==
    /\ calls = <<>>
    /\ Len(input) = 16
    /\ calls' = <<Call("encrypt", key, <<>>, input, 0, KeySchedule(key),
                       Ok(encrypt(key, input)))>>
    /\ UNCHANGED <<overflow_checks, key, input, iv, locals>>

\* decrypt of the caller's block, or of the block encrypt returned
Decrypt ==
    /\ \/ /\ calls = <<>>
          /\ Len(input) = 16
          /\ calls' = <<Call("decrypt", key, <<>>, input, 0, KeySchedule(key),
                             Ok(decrypt(key, input)))>>
       \/ /\ Len(calls) = 1
          /\ calls[1].op = "encrypt"
          /\ calls' = Append(calls,
                 Call("decrypt", key, <<>>, calls[1].out.val, 0, KeySchedule(key),
                      Ok(decrypt(key, calls[1].out.val))))
    /\ UNCHANGED <<overflow_checks, key, input, iv, locals>>

NextBlock == Encrypt \/ Decrypt

SpecBlock == InitBlock /\ [][NextBlock]_vars

-----------------------------------------------------------------------------
(* padding *)

BlockSizes == (1..MaxBlockSize) \cup {16, 20, 255, 256, 257}

PadBuffers ==
    {Ramp(len, 97, 1) : len \in (0..MaxPadLen) \cup {15, 16, 17, 20}}
        \cup {YellowSubmarine}

InitPad ==
    /\ overflow_checks \in BOOLEAN
    /\ key = TestKey
    /\ input \in PadBuffers
    /\ calls = <<>>
    /\ iv = <<>>
    /\ locals = NoCall

Pad ==
    /\ calls = <<>>
    /\ \E block_size \in BlockSizes :
           calls' = <<Call("pad", <<>>, <<>>, input, block_size, <<>>,
                           Ok(pad(input, block_size)))>>
    /\ UNCHANGED <<overflow_checks, key, input, iv, locals>>

\* the unpadding statements of decrypt_ecb / decrypt_cbc on a padded buffer
Unpadding ==
    /\ Len(calls) = 1
    /\ calls[1].op = "pad"
    /\ calls' = Append(calls,
           Call("unpad", <<>>, <<>>, calls[1].out.val, calls[1].block_size, <<>>,
                Unpad(calls[1].out.val, overflow_checks)))
    /\ UNCHANGED <<overflow_checks, key, input, iv, locals>>

NextPad == Pad \/ Unpadding

SpecPad == InitPad /\ [][NextPad]_vars

-----------------------------------------------------------------------------
(* ECB *)

InitModes ==
    /\ overflow_checks \in BOOLEAN
    /\ key \in ModeKeys
    /\ input \in Buffers
    /\ calls = <<>>
    /\ iv = <<>>
    /\ locals = NoCall

EncryptEcb ==
    /\ calls = <<>>
    /\ calls' = <<Call("encrypt_ecb", key, <<>>, input, 16, KeySchedule(key),
                       Ok(encrypt_ecb(key, input)))>>
    /\ UNCHANGED <<overflow_checks, key, input, iv, locals>>

\* decrypt_ecb of the caller's buffer, or of what was received of the
\* ciphertext encrypt_ecb returned
DecryptEcb ==
    /\ \/ /\ calls = <<>>
          /\ calls' = <<Call("decrypt_ecb", key, <<>>, input, 16, KeySchedule(key),
                             decrypt_ecb(key, input, overflow_checks))>>
       \/ /\ Len(calls) = 1
          /\ calls[1].op = "encrypt_ecb"
          /\ \E c \in Received(calls[1].out.val) :
                 calls' = Append(calls,
                     Call("decrypt_ecb", key, <<>>, c, 16, KeySchedule(key),
                          decrypt_ecb(key, c, overflow_checks)))
    /\ UNCHANGED <<overflow_checks, key, input, iv, locals>>

NextEcb == EncryptEcb \/ DecryptEcb

SpecEcb == InitModes /\ [][NextEcb]_vars

-----------------------------------------------------------------------------
(* CBC *)

ZeroIv == Ramp(16, 0, 0)

\* the all-zero IV and 000102030405060708090a0b0c0d0e0f
CbcIvs == {ZeroIv, Ramp(16, 0, 1)}

EncryptCbc ==
    /\ calls = <<>>
    /\ \E v \in CbcIvs :
           calls' = <<Call("encrypt_cbc", key, v, input, 16, KeySchedule(key),
                           Ok(encrypt_cbc(key, v, input)))>>
    /\ UNCHANGED <<overflow_checks, key, input, iv, locals>>

\* decrypt_cbc of the caller's buffer, or of what was received of the
\* ciphertext encrypt_cbc returned, under the IV it was made with
DecryptCbc ==
    /\ \/ /\ calls = <<>>
          /\ \E v \in CbcIvs :
                 calls' = <<Call("decrypt_cbc", key, v, input, 16, KeySchedule(key),
                                 decrypt_cbc(key, v, input, overflow_checks))>>
       \/ /\ Len(calls) = 1
          /\ calls[1].op = "encrypt_cbc"
          /\ \E c \in Received(calls[1].out.val) :
                 calls' = Append(calls,
                     Call("decrypt_cbc", key, calls[1].iv, c, 16, KeySchedule(key),
                          decrypt_cbc(key, calls[1].iv, c, overflow_checks)))
    /\ UNCHANGED <<overflow_checks, key, input, iv, locals>>

NextCbc == EncryptCbc \/ DecryptCbc

SpecCbc == InitModes /\ [][NextCbc]_vars

\* both padded modes
NextPadded == EncryptEcb \/ DecryptEcb \/ EncryptCbc \/ DecryptCbc

SpecPadded == InitModes /\ [][NextPadded]_vars

-----------------------------------------------------------------------------
(* CTR *)

\* the last byte of the counter is ff: the next increment carries
CarryIv == <<0, 1, 2, 3, 4, 5, 6, 7, 0, 0, 0, 0, 0, 0, 0, 255>>

\* the counter is 2^64 - 1
LastCounterIv == <<0, 1, 2, 3, 4, 5, 6, 7, 255, 255, 255, 255, 255, 255, 255, 255>>

CtrIvs == {ZeroIv, CarryIv, LastCounterIv}

CtrBuffers == {Ramp(len, f[1], f[2]) : len \in Lengths, f \in {<<65, 0>>, <<245, 1>>}}

InitCtr ==
    /\ overflow_checks \in BOOLEAN
    /\ key \in ModeKeys
    /\ input \in CtrBuffers
    /\ calls = <<>>
    /\ iv = <<>>
    /\ locals = NoCall

EncryptCtr ==
    /\ calls = <<>>
    /\ \E v \in CtrIvs :
           calls' = <<Call("encrypt_ctr", key, v, input, 0, KeySchedule(key),
                           encrypt_ctr(key, v, input, overflow_checks))>>
    /\ UNCHANGED <<overflow_checks, key, input, iv, locals>>

\* decrypt_ctr of the caller's buffer, or of the ciphertext encrypt_ctr
\* returned, under the IV it was made with
DecryptCtr ==
    /\ \/ /\ calls = <<>>
          /\ \E v \in CtrIvs :
                 calls' = <<Call("decrypt_ctr", key, v, input, 0, KeySchedule(key),
                                 decrypt_ctr(key, v, input, overflow_checks))>>
       \/ /\ Len(calls) = 1
          /\ calls[1].op = "encrypt_ctr"
          /\ calls[1].out.kind = "ok"
          /\ calls' = Append(calls,
                 Call("decrypt_ctr", key, calls[1].iv, calls[1].out.val, 0,
                      KeySchedule(key),
                      decrypt_ctr(key, calls[1].iv, calls[1].out.val, overflow_checks)))
    /\ UNCHANGED <<overflow_checks, key, input, iv, locals>>

NextCtr == EncryptCtr \/ DecryptCtr

SpecCtr == InitCtr /\ [][NextCtr]_vars

\* the three encryptions of one plaintext
NextEncrypt == EncryptEcb \/ EncryptCbc \/ EncryptCtr

SpecEncrypt == InitModes /\ [][NextEncrypt]_vars

-----------------------------------------------------------------------------
(* the eight operations as the caller sees them run: each call sets up its
   local variables, works through its chunks and returns; the caller goes on
   to the next call with the same key and IV, on its buffer or on what an
   earlier call returned *)

\* bound on the number of calls of one behaviour
MaxCalls == 2

CallKeys == {TestKey, Ramp(24, 0, 1)}

CallIvs == {TestKey, LastCounterIv}

CallBuffers == {YellowSubmarine, Cooller, Ramp(33, 245, 1), <<>>}

InitCalls ==
    /\ overflow_checks \in BOOLEAN
    /\ key \in CallKeys
    /\ input \in CallBuffers
    /\ calls = <<>>
    /\ iv \in CallIvs
    /\ locals = NoCall

\* the buffers the caller can hand to a call: its own, and the vectors and
\* blocks earlier calls returned
CallerData ==
    {input} \cup {calls[j].out.val : j \in {i \in 1..Len(calls) : calls[i].out.kind = "ok"}}

\* the caller may make a call
Idle == locals.fn = "none" /\ Len(calls) < MaxCalls

\* the local variables of fn when it reaches its loop over the chunks of
\* buf: a zeroed schedule filled from the key, nr, an empty result
Prologue(fn, k, v, arg, buf) ==
    [NoCall EXCEPT !.fn = fn, !.key = k, !.iv = v, !.arg = arg,
                   !.w = compute_key_schedule(k, ZeroSchedule),
                   !.nr = (Len(k) \div 4) + 6,
                   !.buf = buf, !.n = 1]

\* fn is running and its loop has a chunk left
InLoop(fn) ==
    /\ locals.fn = fn
    /\ locals.panicked = ""
    /\ locals.n <= NumChunks(locals.buf)

CallEncrypt ==
    /\ Idle
    /\ \E d \in CallerData :
           /\ Len(d) = 16
           /\ locals' = Prologue("encrypt", key, <<>>, d, d)
    /\ UNCHANGED <<overflow_checks, key, input, calls, iv>>

EncryptBlock ==
    /\ InLoop("encrypt")
    /\ locals' = [locals EXCEPT !.result = encrypt_block(locals.w, locals.nr, locals.buf),
                                !.n = 2]
    /\ UNCHANGED <<overflow_checks, key, input, calls, iv>>

CallDecrypt ==
    /\ Idle
    /\ \E d \in CallerData :
           /\ Len(d) = 16
           /\ locals' = Prologue("decrypt", key, <<>>, d, d)
    /\ UNCHANGED <<overflow_checks, key, input, calls, iv>>

DecryptBlock ==
    /\ InLoop("decrypt")
    /\ locals' = [locals EXCEPT !.result = decrypt_block(locals.w, locals.nr, locals.buf),
                                !.n = 2]
    /\ UNCHANGED <<overflow_checks, key, input, calls, iv>>

CallEncryptEcb ==
    /\ Idle
    /\ \E d \in CallerData :
           locals' = Prologue("encrypt_ecb", key, <<>>, d, pad(d, 16))
    /\ UNCHANGED <<overflow_checks, key, input, calls, iv>>

EncryptEcbChunk ==
    /\ InLoop("encrypt_ecb")
    /\ LET output == encrypt_block(locals.w, locals.nr, Chunk(locals.buf, locals.n))
       IN  locals' = [locals EXCEPT !.result = @ \o output, !.n = @ + 1]
    /\ UNCHANGED <<overflow_checks, key, input, calls, iv>>

CallDecryptEcb ==
    /\ Idle
    /\ \E d \in CallerData :
           locals' = Prologue("decrypt_ecb", key, <<>>, d, d)
    /\ UNCHANGED <<overflow_checks, key, input, calls, iv>>

\* input[x] = chunk[x] is out of bounds on a short chunk
DecryptEcbChunk ==
    /\ InLoop("decrypt_ecb")
    /\ LET chunk == Chunk(locals.buf, locals.n)
       IN  IF Len(chunk) < 16
           THEN locals' = [locals EXCEPT !.panicked = "index out of bounds"]
           ELSE locals' = [locals EXCEPT
                               !.result = @ \o decrypt_block(locals.w, locals.nr, chunk),
                               !.n = @ + 1]
    /\ UNCHANGED <<overflow_checks, key, input, calls, iv>>

\* encrypt_cbc taking up the chain where its last call on this key left it
CallEncryptCbc_continuing ==
    /\ Idle
    /\ \E d \in CallerData :
           locals' = [Prologue("encrypt_cbc", key, iv, d, pad(d, 16)) EXCEPT
                          !.r = IF calls # <<>> /\ calls[Len(calls)].op = "encrypt_cbc"
                                THEN Chunk(calls[Len(calls)].out.val,
                                           NumChunks(calls[Len(calls)].out.val))
                                ELSE iv]
    /\ UNCHANGED <<overflow_checks, key, input, calls, iv>>

\* let mut r = *iv: the chaining value starts as a copy of the caller's IV
CallEncryptCbc ==
    /\ Idle
    /\ \E d \in CallerData :
           locals' = [Prologue("encrypt_cbc", key, iv, d, pad(d, 16)) EXCEPT !.r = iv]
    /\ UNCHANGED <<overflow_checks, key, input, calls, iv>>

EncryptCbcChunk ==
    /\ InLoop("encrypt_cbc")
    /\ LET output == encrypt_block(locals.w, locals.nr,
                                   XorBlock(Chunk(locals.buf, locals.n), locals.r))
       IN  locals' = [locals EXCEPT !.result = @ \o output, !.r = output, !.n = @ + 1]
    /\ UNCHANGED <<overflow_checks, key, input, calls, iv>>

CallDecryptCbc ==
    /\ Idle
    /\ \E d \in CallerData :
           locals' = [Prologue("decrypt_cbc", key, iv, d, d) EXCEPT !.r = iv]
    /\ UNCHANGED <<overflow_checks, key, input, calls, iv>>

DecryptCbcChunk ==
    /\ InLoop("decrypt_cbc")
    /\ LET chunk == Chunk(locals.buf, locals.n)
       IN  IF Len(chunk) < 16
           THEN locals' = [locals EXCEPT !.panicked = "index out of bounds"]
           ELSE locals' = [locals EXCEPT
                               !.result = @ \o XorBlock(decrypt_block(locals.w, locals.nr, chunk),
                                                        locals.r),
                               !.r = chunk,
                               !.n = @ + 1]
    /\ UNCHANGED <<overflow_checks, key, input, calls, iv>>

\* the nonce and the counter are read from the caller's IV
CallEncryptCtr ==
    /\ Idle
    /\ \E d \in CallerData :
           locals' = [Prologue("encrypt_ctr", key, iv, d, d) EXCEPT
                          !.nonce = ReadU64(iv, 1), !.ctr = ReadU64(iv, 9)]
    /\ UNCHANGED <<overflow_checks, key, input, calls, iv>>

CallDecryptCtr ==
    /\ Idle
    /\ \E d \in CallerData :
           locals' = [Prologue("decrypt_ctr", key, iv, d, d) EXCEPT
                          !.nonce = ReadU64(iv, 1), !.ctr = ReadU64(iv, 9)]
    /\ UNCHANGED <<overflow_checks, key, input, calls, iv>>

\* one pass of the loop of encrypt_ctr: ctr += 1 comes before encrypt_block
\* and panics on overflow when the build checks it
EncryptCtrChunk ==
    /\ InLoop("encrypt_ctr")
    /\ IF locals.ctr = U64Max /\ overflow_checks
       THEN locals' = [locals EXCEPT !.panicked = "attempt to add with overflow"]
       ELSE LET output == encrypt_block(locals.w, locals.nr,
                                        WriteU64(locals.nonce) \o WriteU64(locals.ctr))
            IN  locals' = [locals EXCEPT
                               !.result = @ \o XorChunk(Chunk(locals.buf, locals.n), output),
                               !.ctr = WrappingInc(@),
                               !.n = @ + 1]
    /\ UNCHANGED <<overflow_checks, key, input, calls, iv>>

\* one pass of the loop of decrypt_ctr: ctr += 1 comes before encrypt_block
\* and panics on overflow when the build checks it
DecryptCtrChunk ==
    /\ InLoop("decrypt_ctr")
    /\ IF locals.ctr = U64Max /\ overflow_checks
       THEN locals' = [locals EXCEPT !.panicked = "attempt to add with overflow"]
       ELSE LET output == encrypt_block(locals.w, locals.nr,
                                        WriteU64(locals.nonce) \o WriteU64(locals.ctr))
            IN  locals' = [locals EXCEPT
                               !.result = @ \o XorChunk(Chunk(locals.buf, locals.n), output),
                               !.ctr = WrappingInc(@),
                               !.n = @ + 1]
    /\ UNCHANGED <<overflow_checks, key, input, calls, iv>>

\* the loop is over: decrypt_ecb and decrypt_cbc take the padding off, the
\* others hand back result; the local variables are dropped
Return ==
    /\ locals.fn # "none"
    /\ locals.panicked = ""
    /\ locals.n > NumChunks(locals.buf)
    /\ calls' = Append(calls,
           Call(locals.fn, locals.key, locals.iv, locals.arg, 16, locals.w,
                IF locals.fn \in {"decrypt_ecb", "decrypt_cbc"}
                THEN Unpad(locals.result, overflow_checks)
                ELSE Ok(locals.result)))
    /\ locals' = NoCall
    /\ UNCHANGED <<overflow_checks, key, input, iv>>

\* a panic in the loop unwinds the call: nothing is returned
Unwind ==
    /\ locals.fn # "none"
    /\ locals.panicked # ""
    /\ calls' = Append(calls,
           Call(locals.fn, locals.key, locals.iv, locals.arg, 16, locals.w,
                Panic(locals.panicked)))
    /\ locals' = NoCall
    /\ UNCHANGED <<overflow_checks, key, input, iv>>

NextCalls ==
    \/ CallEncrypt
    \/ EncryptBlock
    \/ CallDecrypt
    \/ DecryptBlock
    \/ CallEncryptEcb
    \/ EncryptEcbChunk
    \/ CallDecryptEcb
    \/ DecryptEcbChunk
    \/ CallEncryptCbc
    \/ EncryptCbcChunk
    \/ CallDecryptCbc
    \/ DecryptCbcChunk
    \/ CallEncryptCtr
    \/ EncryptCtrChunk
    \/ CallDecryptCtr
    \/ DecryptCtrChunk
    \/ Return
    \/ Unwind

SpecCalls == InitCalls /\ [][NextCalls]_vars

-----------------------------------------------------------------------------
(* encrypt_block and decrypt_block statement by statement: calls is the log *)
(* of the transformations applied to the state so far                       *)

\* one transformation of the state: fn is the function running, round its
\* loop variable (-1 before the loop), a the index of the round key used
Step(fn, op, round, a, before, after) ==
    [fn |-> fn, op |-> op, round |-> round, a |-> a, before |-> before, after |-> after]

RoundBlocks == {YellowSubmarine, FipsBlock}

InitRounds ==
    /\ overflow_checks \in BOOLEAN
    /\ key \in ModeKeys
    /\ input \in RoundBlocks
    /\ calls = <<>>
    /\ iv = <<>>
    /\ locals = NoCall

LastStep == calls[Len(calls)]

\* the copy of the input into the state and the add_round_key before the loop
BlockStart ==
    /\ calls = <<>>
    /\ LET state == LoadState(input)
           w     == KeySchedule(key)
           nr    == Rounds(key)
       IN  \/ calls' = <<Step("encrypt_block", "add_round_key", -1, 0, state,
                               add_round_key(state, RoundKey(w, 0)))>>
           \/ calls' = <<Step("decrypt_block", "add_round_key", -1, nr, state,
                               add_round_key(state, RoundKey(w, nr)))>>
    /\ UNCHANGED <<overflow_checks, key, input, iv, locals>>

\* for round in 0..nr { sub_bytes(&mut state);
EncSubBytes ==
    /\ calls # <<>>
    /\ LastStep.fn = "encrypt_block"
    /\ LastStep.op = "add_round_key"
    /\ LastStep.round + 1 < Rounds(key)
    /\ calls' = Append(calls, Step("encrypt_block", "sub_bytes", LastStep.round + 1, -1,
                                   LastStep.after, sub_bytes(LastStep.after)))
    /\ UNCHANGED <<overflow_checks, key, input, iv, locals>>

EncShiftRows ==
    /\ calls # <<>>
    /\ LastStep.fn = "encrypt_block"
    /\ LastStep.op = "sub_bytes"
    /\ calls' = Append(calls, Step("encrypt_block", "shift_rows", LastStep.round, -1,
                                   LastStep.after, shift_rows(LastStep.after)))
    /\ UNCHANGED <<overflow_checks, key, input, iv, locals>>

\* mix_columns in every round, the last one included
EncMixColumns_every_round ==
    /\ calls # <<>>
    /\ LastStep.fn = "encrypt_block"
    /\ LastStep.op = "shift_rows"
    /\ calls' = Append(calls, Step("encrypt_block", "mix_columns", LastStep.round, -1,
                                   LastStep.after, mix_columns(LastStep.after)))
    /\ UNCHANGED <<overflow_checks, key, input, iv, locals>>

\* if round < nr-1 { mix_columns(&mut state); }
EncMixColumns ==
    /\ calls # <<>>
    /\ LastStep.fn = "encrypt_block"
    /\ LastStep.op = "shift_rows"
    /\ LastStep.round < Rounds(key) - 1
    /\ calls' = Append(calls, Step("encrypt_block", "mix_columns", LastStep.round, -1,
                                   LastStep.after, mix_columns(LastStep.after)))
    /\ UNCHANGED <<overflow_checks, key, input, iv, locals>>

\* add_round_key(&mut state, &w[(round+1)*4..(round+2)*4]); }
EncAddRoundKey ==
    /\ calls # <<>>
    /\ LastStep.fn = "encrypt_block"
    /\ \/ LastStep.op = "mix_columns"
       \/ LastStep.op = "shift_rows" /\ ~(LastStep.round < Rounds(key) - 1)
    /\ calls' = Append(calls,
           Step("encrypt_block", "add_round_key", LastStep.round, LastStep.round + 1,
                LastStep.after,
                add_round_key(LastStep.after, RoundKey(KeySchedule(key), LastStep.round + 1))))
    /\ UNCHANGED <<overflow_checks, key, input, iv, locals>>

\* let mut round = nr; while round > 0 { inv_shift_rows(&mut state);
DecInvShiftRows ==
    /\ calls # <<>>
    /\ LastStep.fn = "decrypt_block"
    /\ \/ LastStep.round = -1 /\ Rounds(key) > 0
       \/ LastStep.op = "inv_mix_columns" /\ LastStep.round - 1 > 0
    /\ LET round == IF LastStep.round = -1 THEN Rounds(key) ELSE LastStep.round - 1
       IN  calls' = Append(calls, Step("decrypt_block", "inv_shift_rows", round, -1,
                                       LastStep.after, inv_shift_rows(LastStep.after)))
    /\ UNCHANGED <<overflow_checks, key, input, iv, locals>>

DecInvSubBytes ==
    /\ calls # <<>>
    /\ LastStep.fn = "decrypt_block"
    /\ LastStep.op = "inv_shift_rows"
    /\ calls' = Append(calls, Step("decrypt_block", "inv_sub_bytes", LastStep.round, -1,
                                   LastStep.after, inv_sub_bytes(LastStep.after)))
    /\ UNCHANGED <<overflow_checks, key, input, iv, locals>>

\* add_round_key(&mut state, &w[(round-1)*4..(round)*4]);
DecAddRoundKey ==
    /\ calls # <<>>
    /\ LastStep.fn = "decrypt_block"
    /\ LastStep.op = "inv_sub_bytes"
    /\ calls' = Append(calls,
           Step("decrypt_block", "add_round_key", LastStep.round, LastStep.round - 1,
                LastStep.after,
                add_round_key(LastStep.after, RoundKey(KeySchedule(key), LastStep.round - 1))))
    /\ UNCHANGED <<overflow_checks, key, input, iv, locals>>

\* if round > 1 { inv_mix_columns(&mut state); } round -= 1; }
DecInvMixColumns ==
    /\ calls # <<>>
    /\ LastStep.fn = "decrypt_block"
    /\ LastStep.op = "add_round_key"
    /\ LastStep.round > 1
    /\ calls' = Append(calls, Step("decrypt_block", "inv_mix_columns", LastStep.round, -1,
                                   LastStep.after, inv_mix_columns(LastStep.after)))
    /\ UNCHANGED <<overflow_checks, key, input, iv, locals>>

NextRounds ==
    \/ BlockStart
    \/ EncSubBytes
    \/ EncShiftRows
    \/ EncMixColumns
    \/ EncAddRoundKey
    \/ DecInvShiftRows
    \/ DecInvSubBytes
    \/ DecAddRoundKey
    \/ DecInvMixColumns

SpecRounds == InitRounds /\ [][NextRounds]_vars

-----------------------------------------------------------------------------
(* byte operations: dot and the substitution boxes *)

Bytes == 0..255

InitBytes ==
    /\ overflow_checks \in BOOLEAN
    /\ key = <<>>
    /\ input \in {<<x>> : x \in Bytes}
    /\ calls = <<>>
    /\ iv = <<>>
    /\ locals = NoCall

\* dot(x, y) of the caller's byte x with every byte y
Dot ==
    /\ calls = <<>>
    /\ calls' = <<Call("dot", <<>>, <<>>, input, 0, <<>>,
                       Ok(Strict([y \in 1..256 |-> dot(input[1], y - 1)])))>>
    /\ UNCHANGED <<overflow_checks, key, input, iv, locals>>

\* the state x, x + 0x11, x + 0x22, .. made of the caller's byte x
ByteState(x) == LoadState(Ramp(16, x, 17))

\* sub_bytes of the caller's state, or of the state inv_sub_bytes left
SubBytes ==
    /\ \/ /\ calls = <<>>
          /\ calls' = <<Call("sub_bytes", <<>>, <<>>, ByteState(input[1]), 0, <<>>,
                             Ok(sub_bytes(ByteState(input[1]))))>>
       \/ /\ Len(calls) = 1
          /\ calls[1].op = "inv_sub_bytes"
          /\ calls' = Append(calls,
                 Call("sub_bytes", <<>>, <<>>, calls[1].out.val, 0, <<>>,
                      Ok(sub_bytes(calls[1].out.val))))
    /\ UNCHANGED <<overflow_checks, key, input, iv, locals>>

\* inv_sub_bytes of the caller's state, or of the state sub_bytes left
InvSubBytes ==
    /\ \/ /\ calls = <<>>
          /\ calls' = <<Call("inv_sub_bytes", <<>>, <<>>, ByteState(input[1]), 0, <<>>,
                             Ok(inv_sub_bytes(ByteState(input[1]))))>>
       \/ /\ Len(calls) = 1
          /\ calls[1].op = "sub_bytes"
          /\ calls' = Append(calls,
                 Call("inv_sub_bytes", <<>>, <<>>, calls[1].out.val, 0, <<>>,
                      Ok(inv_sub_bytes(calls[1].out.val))))
    /\ UNCHANGED <<overflow_checks, key, input, iv, locals>>

NextBytes == Dot \/ SubBytes \/ InvSubBytes

SpecBytes == InitBytes /\ [][NextBytes]_vars

-----------------------------------------------------------------------------
(* ECB detection *)

\* 56 times 'A', then ".\n": the plaintext of tests::detect_ecb_0..2
AaaPlaintext == Ramp(56, 65, 0) \o <<46, 10>>

\* 16 bytes of value 16: padded, the block occurs twice
SixteenSixteens == Ramp(16, 16, 0)

\* a block of zeros, a ramp block, the block of zeros again
ZerosRampZeros == Ramp(16, 0, 0) \o Ramp(16, 245, 1) \o Ramp(16, 0, 0)

DetectBuffers ==
    {Ramp(len, f[1], f[2]) : len \in Lengths, f \in {<<0, 0>>, <<245, 1>>}}
        \cup {AaaPlaintext, SixteenSixteens, ZerosRampZeros}

InitDetect ==
    /\ overflow_checks \in BOOLEAN
    /\ key \in ModeKeys
    /\ input \in DetectBuffers
    /\ calls = <<>>
    /\ iv = <<>>
    /\ locals = NoCall

\* detect_ecb of the caller's buffer, or of the ciphertext an encryption
\* returned
DetectEcb ==
    /\ \/ /\ calls = <<>>
          /\ calls' = <<Call("detect_ecb", <<>>, <<>>, input, 0, <<>>,
                             Ok(detect_ecb(input)))>>
       \/ /\ Len(calls) = 1
          /\ calls[1].op \in {"encrypt_ecb", "encrypt_cbc", "encrypt_ctr"}
          /\ calls[1].out.kind = "ok"
          /\ calls' = Append(calls,
                 Call("detect_ecb", <<>>, <<>>, calls[1].out.val, 0, <<>>,
                      Ok(detect_ecb(calls[1].out.val))))
    /\ UNCHANGED <<overflow_checks, key, input, iv, locals>>

NextDetect == EncryptEcb \/ EncryptCbc \/ EncryptCtr \/ DetectEcb

SpecDetect == InitDetect /\ [][NextDetect]_vars

-----------------------------------------------------------------------------
(* keys made from byte slices *)

\* the helper the tests and the challenge binaries build a key array with:
\* slice.iter().zip(array.iter_mut()) copies min(len, 16) bytes into zeros
to_byte_array_16(slice) ==
    Strict([i \in 1..16 |-> IF i <= Len(slice) THEN slice[i] ELSE 0])

\* lengths of the byte slices offered as key material
KeySliceLengths == {0, 3, 12, 15, 16, 17, 20, 24, 32, 33, 36}

KeySlices ==
    {Ramp(len, 71 * v, 1 + 6 * v) : len \in KeySliceLengths, v \in 0..(KeyVariants - 1)}

InitKeyBytes ==
    /\ overflow_checks \in BOOLEAN
    /\ key = <<>>
    /\ input \in KeySlices
    /\ calls = <<>>
    /\ iv = <<>>
    /\ locals = NoCall

\* compute_key_schedule(&slice, &mut w) with w = [[0u8; 4]; 60]
ComputeKeySchedule ==
    /\ calls = <<>>
    /\ LET r == compute_key_schedule_result(input, ZeroSchedule, overflow_checks)
       IN  calls' = <<Call("compute_key_schedule", input, <<>>, <<>>, 0, r.val, r)>>
    /\ UNCHANGED <<overflow_checks, key, input, iv, locals>>

ToByteArray16 ==
    /\ calls = <<>>
    /\ calls' = <<Call("to_byte_array_16", <<>>, <<>>, input, 0, <<>>,
                       Ok(to_byte_array_16(input)))>>
    /\ UNCHANGED <<overflow_checks, key, input, iv, locals>>

\* encrypt under AesKey::Key128(AesKey128 {key: to_byte_array_16(slice)})
EncryptUnderArray ==
    /\ Len(calls) = 1
    /\ calls[1].op = "to_byte_array_16"
    /\ LET k == calls[1].out.val
       IN  calls' = Append(calls,
               Call("encrypt", k, <<>>, YellowSubmarine, 0, KeySchedule(k),
                    Ok(encrypt(k, YellowSubmarine))))
    /\ UNCHANGED <<overflow_checks, key, input, iv, locals>>

NextKeyBytes == ComputeKeySchedule \/ ToByteArray16 \/ EncryptUnderArray

SpecKeyBytes == InitKeyBytes /\ [][NextKeyBytes]_vars

-----------------------------------------------------------------------------
(* properties *)

Chained(op1, op2) ==
    /\ Len(calls) = 2
    /\ calls[1].op = op1
    /\ calls[2].op = op2
    /\ calls[1].out.kind = "ok"
    /\ calls[2].input = calls[1].out.val
    /\ calls[2].key = calls[1].key
    /\ calls[2].iv = calls[1].iv

\* C1: decrypt under a key of any of the three sizes returns the block that
\* encrypt was given under the same key.
BlockRoundTrip ==
    Chained("encrypt", "decrypt") => calls[2].out = Ok(calls[1].input)

BlockRoundTripReached ==
    /\ Chained("encrypt", "decrypt")
    /\ Len(key) = 24
    /\ calls[1].input = YellowSubmarine
    /\ calls[2].input # YellowSubmarine
    /\ calls[2].out.val = YellowSubmarine

\* C2: decrypt_cbc of the ciphertext of encrypt_cbc, under the same key and
\* IV, returns the plaintext, whatever its length.
CbcRoundTrip ==
    Chained("encrypt_cbc", "decrypt_cbc") => calls[2].out = Ok(calls[1].input)

CbcRoundTripReached ==
    /\ Chained("encrypt_cbc", "decrypt_cbc")
    /\ Len(calls[1].input) = 32
    /\ Len(calls[2].input) = 48
    /\ calls[2].iv # ZeroIv
    /\ calls[2].out = Ok(input)

\* C3: decrypt_ecb of the ciphertext of encrypt_ecb, under the same key,
\* returns the plaintext, whatever its length.
EcbRoundTrip ==
    Chained("encrypt_ecb", "decrypt_ecb") => calls[2].out = Ok(calls[1].input)

EcbRoundTripReached ==
    /\ Chained("encrypt_ecb", "decrypt_ecb")
    /\ Len(calls[1].input) = 16
    /\ Len(calls[2].input) = 32
    /\ calls[2].out = Ok(input)

\* C4: encrypt_ctr returns a ciphertext for every key, IV and plaintext, and
\* decrypt_ctr of it under the same key and IV returns the plaintext.
CtrRoundTrip ==
    /\ \A i \in 1..Len(calls) : calls[i].op = "encrypt_ctr" => calls[i].out.kind = "ok"
    /\ Chained("encrypt_ctr", "decrypt_ctr") => calls[2].out = Ok(calls[1].input)

\* 69c4e0d86a7b0430d8cdb78070b4c55a: AES-128 of FipsBlock under TestKey
\* (FIPS-197, appendix C.1)
FipsCipher ==
    <<105, 196, 224, 216, 106, 123, 4, 48, 216, 205, 183, 128, 112, 180, 197, 90>>

\* C5: under the 128-bit key 000102..0f, encrypt maps "YELLOW SUBMARINE" to
\* 761ab98c7086c509261f322cb3ffa7d9 and the FIPS-197 plaintext to its
\* standard ciphertext, and decrypt maps the ciphertexts back.
KnownAnswer ==
    \A i \in 1..Len(calls) :
        calls[i].key = TestKey =>
            /\ (calls[i].op = "encrypt" /\ calls[i].input = YellowSubmarine)
                   => calls[i].out = Ok(Cipher761a)
            /\ (calls[i].op = "decrypt" /\ calls[i].input = Cipher761a)
                   => calls[i].out = Ok(YellowSubmarine)
            /\ (calls[i].op = "encrypt" /\ calls[i].input = FipsBlock)
                   => calls[i].out = Ok(FipsCipher)
            /\ (calls[i].op = "decrypt" /\ calls[i].input = FipsCipher)
                   => calls[i].out = Ok(FipsBlock)

KnownAnswerReached ==
    /\ key = TestKey
    /\ Len(calls) = 2
    /\ calls[1].op = "encrypt"
    /\ calls[1].input = YellowSubmarine
    /\ calls[2].op = "decrypt"
    /\ calls[2].input = Cipher761a
    /\ calls[2].out.val = YellowSubmarine

\* 2 * x in GF(2^8) modulo 0x11b
Gf256Double(x) == IF x >= 128 THEN Xor((2 * x) - 256, 27) ELSE 2 * x

\* 2^(k-1) in GF(2^8) modulo 0x11b: 01 02 04 .. 80 1b 36 ..
RECURSIVE RoundConstant(_)
RoundConstant(k) == IF k <= 1 THEN 1 ELSE Gf256Double(RoundConstant(k - 1))

\* T(w[i-1]) of the key expansion, for word index i (0-based)
ExpansionT(prev, i, keywords) ==
    IF i % keywords = 0
    THEN LET rs == sub_word(rot_word(prev))
         IN  <<Xor(rs[1], RoundConstant(i \div keywords)), rs[2], rs[3], rs[4]>>
    ELSE IF keywords = 8 /\ i % 8 = 4 THEN sub_word(prev)
    ELSE prev

FollowsRecurrence(w, keywords) ==
    \A i \in keywords..(4 * (keywords + 7) - 1) :
        w[i + 1] = XorWord(w[i + 1 - keywords], ExpansionT(w[i], i, keywords))

\* C6: the key schedule of every call follows the recurrence
\* w[i] = w[i-keywords] XOR T(w[i-1]) with the round constants 2^(k-1),
\* for keys of 16, 24 and 32 bytes.
ScheduleRecurrence ==
    \A j \in 1..Len(calls) :
        FollowsRecurrence(calls[j].w, Len(calls[j].key) \div 4)

\* the same for the keys of 16 and 32 bytes only
ScheduleRecurrence128And256 ==
    \A j \in 1..Len(calls) :
        Len(calls[j].key) # 24 =>
            FollowsRecurrence(calls[j].w, Len(calls[j].key) \div 4)

\* the padding length n = S - (len(b) mod S)
PaddingLength(b, block_size) == block_size - (Len(b) % block_size)

\* out is b followed by exactly n bytes of value v
Appended(out, b, n, v) ==
    /\ Len(out) = Len(b) + n
    /\ SubSeq(out, 1, Len(b)) = b
    /\ \A i \in (Len(b) + 1)..Len(out) : out[i] = v

\* C7 as stated: pad(b, S) is b followed by n bytes each of value n.
PadAppendsLength ==
    \A j \in 1..Len(calls) :
        calls[j].op = "pad" =>
            LET n == PaddingLength(calls[j].input, calls[j].block_size)
            IN  /\ calls[j].out.kind = "ok"
                /\ Appended(calls[j].out.val, calls[j].input, n, n)

\* C7, amended: pad(b, S) is b followed by n bytes each of value n mod 256
\* (n itself when n <= 255), with n = S when b is block-aligned or empty.
PadAppendsLengthMod256 ==
    \A j \in 1..Len(calls) :
        calls[j].op = "pad" =>
            LET n == PaddingLength(calls[j].input, calls[j].block_size)
            IN  /\ calls[j].out.kind = "ok"
                /\ Appended(calls[j].out.val, calls[j].input, n, n % 256)
                /\ (Len(calls[j].input) % calls[j].block_size = 0)
                       => n = calls[j].block_size

PadFullBlockReached ==
    /\ Len(calls) = 1
    /\ calls[1].op = "pad"
    /\ calls[1].block_size = 16
    /\ calls[1].input = YellowSubmarine
    /\ Len(calls[1].out.val) = 32
    /\ calls[1].out.val[32] = 16

\* C8 as stated: unpadding pad(P, S) returns P, for every block size S.
UnpadInvertsPad ==
    (Len(calls) = 2 /\ calls[1].op = "pad" /\ calls[2].op = "unpad"
        /\ calls[2].input = calls[1].out.val)
        => calls[2].out = Ok(calls[1].input)

\* C8, amended: unpadding pad(P, S) returns P whenever the padding length
\* S - (len(P) mod S) is at most 255, so for every S <= 255.
UnpadInvertsPadUpTo255 ==
    (Len(calls) = 2 /\ calls[1].op = "pad" /\ calls[2].op = "unpad"
        /\ calls[2].input = calls[1].out.val
        /\ PaddingLength(calls[1].input, calls[1].block_size) <= 255)
        => calls[2].out = Ok(calls[1].input)

UnpadInvertsPadReached ==
    /\ Len(calls) = 2
    /\ calls[1].op = "pad"
    /\ calls[2].op = "unpad"
    /\ calls[1].block_size = 255
    /\ calls[1].input = <<>>
    /\ Len(calls[2].input) = 255
    /\ calls[2].out = Ok(<<>>)

Error(name) == [kind |-> "error", val |-> <<>>, reason |-> name]

\* the decrypted buffer of a decrypt_ecb or decrypt_cbc call, before unpadding
Decrypted(c) ==
    IF c.op = "decrypt_ecb" THEN DecryptEcbBlocks(c.key, c.input)
    ELSE DecryptCbcBlocks(c.key, c.iv, c.input)

\* C9: a decrypt_ecb or decrypt_cbc call whose decrypted buffer ends in the
\* byte n fails with InvalidPadding when n is 0, exceeds the buffer length
\* or exceeds 16, and otherwise returns the buffer without its last n bytes.
UnpadRejectsBadLength ==
    \A j \in 1..Len(calls) :
        (calls[j].op \in {"decrypt_ecb", "decrypt_cbc"}
            /\ Len(calls[j].input) > 0 /\ Len(calls[j].input) % 16 = 0)
        => LET result == Decrypted(calls[j])
               n      == result[Len(result)]
           IN  calls[j].out =
                   IF n = 0 \/ n > Len(result) \/ n > 16
                   THEN Error("InvalidPadding")
                   ELSE Ok(SubSeq(result, 1, Len(result) - n))

\* C10: decrypt_ecb and decrypt_cbc of a ciphertext whose length is not a
\* multiple of 16 return the error value InvalidBlockLength.
ShortBlockRejected ==
    \A j \in 1..Len(calls) :
        (calls[j].op \in {"decrypt_ecb", "decrypt_cbc"} /\ Len(calls[j].input) % 16 # 0)
        => calls[j].out = Error("InvalidBlockLength")

\* C11: every decrypt_ecb and decrypt_cbc call returns to its caller, with a
\* plaintext or with an error value; none aborts, whatever the length and
\* content of the ciphertext.
DecryptReturns ==
    \A j \in 1..Len(calls) :
        calls[j].op \in {"decrypt_ecb", "decrypt_cbc"} => calls[j].out.kind # "panic"

\* C12: every encrypt_ctr and decrypt_ctr call returns an output, for every
\* IV (the initial counter 2^64 - 1 included) and every input length.
CtrCompletes ==
    \A j \in 1..Len(calls) :
        calls[j].op \in {"encrypt_ctr", "decrypt_ctr"} => calls[j].out.kind = "ok"

\* C13: key material of a length other than 16, 24 or 32 bytes is rejected
\* with the error value InvalidKeyLength: compute_key_schedule produces no
\* schedule from it and no key is made of it.
KeyLengthRejected ==
    \A j \in 1..Len(calls) :
        /\ (calls[j].op = "compute_key_schedule" /\ Len(calls[j].key) \notin {16, 24, 32})
               => calls[j].out = Error("InvalidKeyLength")
        /\ (calls[j].op = "to_byte_array_16" /\ Len(calls[j].input) \notin {16, 24, 32})
               => calls[j].out = Error("InvalidKeyLength")

\* a schedule buffer that holds ff in every byte before the call
FilledSchedule == [i \in 1..60 |-> <<255, 255, 255, 255>>]

\* Nr for a key of len bytes
ExpectedRounds(len) == CASE len = 16 -> 10 [] len = 24 -> 12 [] len = 32 -> 14

\* C14: for keys of 16, 24 and 32 bytes Nr is 10, 12 and 14; the schedule
\* is the first 4*(Nr+1) words of w (44, 52, 60): they are written whatever
\* w held before and start with the raw key bytes in order, no word from
\* 4*(Nr+1) on is written, and encrypt_block and decrypt_block read none of
\* them (their output is the same when those words hold something else).
ScheduleLength ==
    \A j \in 1..Len(calls) :
        calls[j].op \in {"encrypt", "decrypt"} =>
            LET k  == calls[j].key
                nr == ExpectedRounds(Len(k))
                n  == 4 * (nr + 1)
                w  == calls[j].w
                f  == compute_key_schedule(k, FilledSchedule)
            IN  /\ Rounds(k) = nr
                /\ n = (IF Len(k) = 16 THEN 44 ELSE IF Len(k) = 24 THEN 52 ELSE 60)
                /\ \A i \in 1..n : w[i] = f[i]
                /\ \A i \in (n + 1)..60 :
                       w[i] = ZeroSchedule[i] /\ f[i] = FilledSchedule[i]
                /\ \A i \in 1..Len(k) : w[((i - 1) \div 4) + 1][((i - 1) % 4) + 1] = k[i]
                /\ calls[j].out.val =
                       IF calls[j].op = "encrypt"
                       THEN encrypt_block(f, nr, calls[j].input)
                       ELSE decrypt_block(f, nr, calls[j].input)

ScheduleLengthReached ==
    /\ Len(calls) = 2
    /\ calls[1].op = "encrypt"
    /\ calls[2].op = "decrypt"
    /\ Len(calls[1].key) = 24
    /\ calls[1].w[52] # <<0, 0, 0, 0>>
    /\ calls[1].w[53] = <<0, 0, 0, 0>>
    /\ calls[2].out.val = calls[1].input

\* the ciphertext of "Cooller" that tests::encrypt_ecb_0 expects
CoollerEcb ==
    <<40, 80, 126, 246, 153, 18, 246, 8, 200, 113, 212, 145, 203, 140, 137, 97>>

\* C15: encrypt_ecb(K, P) is the concatenation, in order, of encrypt(K, X_i)
\* over the 16-byte blocks X_i of pad(P, 16), so equal padded blocks give
\* equal ciphertext blocks; "Cooller" under 000102..0f gives CoollerEcb.
EcbBlockwise ==
    \A j \in 1..Len(calls) :
        calls[j].op = "encrypt_ecb" =>
            LET k   == calls[j].key
                x   == pad(calls[j].input, 16)
                out == calls[j].out.val
            IN  /\ calls[j].out.kind = "ok"
                /\ Len(out) = Len(x)
                /\ \A i \in 1..NumChunks(x) : Chunk(out, i) = encrypt(k, Chunk(x, i))
                /\ \A i1, i2 \in 1..NumChunks(x) :
                       Chunk(x, i1) = Chunk(x, i2) => Chunk(out, i1) = Chunk(out, i2)
                /\ (k = TestKey /\ calls[j].input = Cooller) => out = CoollerEcb

\* 32 zero bytes: two equal blocks and the padding block
EcbBlockwiseReached ==
    /\ Len(calls) = 1
    /\ calls[1].op = "encrypt_ecb"
    /\ calls[1].input = Ramp(32, 0, 0)
    /\ Len(calls[1].out.val) = 48
    /\ Chunk(calls[1].out.val, 1) = Chunk(calls[1].out.val, 2)
    /\ Chunk(calls[1].out.val, 3) # Chunk(calls[1].out.val, 2)

\* the ciphertext of "Cooller" that tests::encrypt_cbc_0 expects
CoollerCbc ==
    <<184, 150, 45, 131, 33, 100, 210, 30, 247, 102, 16, 15, 77, 186, 157, 60>>

\* C16: with X_1..X_m the 16-byte blocks of pad(P, 16), encrypt_cbc returns
\* C_1..C_m with C_1 = encrypt(K, X_1 XOR IV) and
\* C_i = encrypt(K, X_i XOR C_(i-1)); "Cooller" under key and IV 000102..0f
\* gives CoollerCbc.
CbcEncryptChains ==
    \A j \in 1..Len(calls) :
        calls[j].op = "encrypt_cbc" =>
            LET k   == calls[j].key
                x   == pad(calls[j].input, 16)
                out == calls[j].out.val
            IN  /\ calls[j].out.kind = "ok"
                /\ Len(out) = Len(x)
                /\ \A i \in 1..NumChunks(x) :
                       Chunk(out, i) =
                           encrypt(k, XorBlock(Chunk(x, i),
                               IF i = 1 THEN calls[j].iv ELSE Chunk(out, i - 1)))
                /\ (k = TestKey /\ calls[j].iv = TestKey /\ calls[j].input = Cooller)
                       => out = CoollerCbc

\* 32 zero bytes under a non-zero IV: equal plaintext blocks, chained
CbcEncryptChainsReached ==
    /\ Len(calls) = 1
    /\ calls[1].op = "encrypt_cbc"
    /\ calls[1].input = Ramp(32, 0, 0)
    /\ calls[1].iv = TestKey
    /\ Len(calls[1].out.val) = 48
    /\ Chunk(calls[1].out.val, 1) # Chunk(calls[1].out.val, 2)
    /\ Chunk(calls[1].out.val, 2) = encrypt(calls[1].key, Chunk(calls[1].out.val, 1))

\* C17: for a ciphertext C_1..C_m of whole blocks, block i of the buffer
\* decrypt_cbc holds before unpadding is decrypt(K, C_i) XOR C_(i-1), with
\* the IV before C_1; the chaining value after block i is C_i (the loop
\* resumed after block i with C_i yields the same buffer), and the call
\* returns that buffer unpadded.
CbcDecryptChains ==
    \A j \in 1..Len(calls) :
        (calls[j].op = "decrypt_cbc" /\ Len(calls[j].input) % 16 = 0) =>
            LET k == calls[j].key
                c == calls[j].input
                result == DecryptCbcBlocks(k, calls[j].iv, c)
            IN  /\ Len(result) = Len(c)
                /\ \A i \in 1..NumChunks(c) :
                       /\ Chunk(result, i) =
                              XorBlock(decrypt(k, Chunk(c, i)),
                                       IF i = 1 THEN calls[j].iv ELSE Chunk(c, i - 1))
                       /\ DecryptCbcLoop(KeySchedule(k), Rounds(k), c, i + 1, Chunk(c, i),
                                         SubSeq(result, 1, 16 * i)) = result
                /\ Len(c) > 0 => calls[j].out = Unpad(result, overflow_checks)

\* a two-block buffer of the caller: the second block is chained on the
\* first ciphertext block and not on the IV
CbcDecryptChainsReached ==
    /\ Len(calls) = 1
    /\ calls[1].op = "decrypt_cbc"
    /\ calls[1].input = Ramp(32, 245, 1)
    /\ calls[1].iv = TestKey
    /\ LET result == DecryptCbcBlocks(calls[1].key, calls[1].iv, calls[1].input)
           d2     == decrypt(calls[1].key, Chunk(calls[1].input, 2))
       IN  /\ Chunk(result, 2) = XorBlock(d2, Chunk(calls[1].input, 1))
           /\ Chunk(result, 2) # XorBlock(d2, calls[1].iv)

\* the 8-byte big-endian number b plus one, modulo 2^64
BeInc(b) ==
    IF \A i \in 1..8 : b[i] = 255 THEN <<0, 0, 0, 0, 0, 0, 0, 0>>
    ELSE LET p == CHOOSE q \in 1..8 : b[q] # 255 /\ \A r \in (q + 1)..8 : b[r] = 255
         IN  Strict([i \in 1..8 |-> IF i < p THEN b[i] ELSE IF i = p THEN b[i] + 1 ELSE 0])

\* BE64(c0 + n) for the 8 bytes b of c0
RECURSIVE BeAdd(_, _)
BeAdd(b, n) == IF n = 0 THEN b ELSE BeAdd(BeInc(b), n - 1)

\* the counter block of chunk n (from 1) of a stream under the IV v
CounterBlock(v, n) == SubSeq(v, 1, 8) \o BeAdd(SubSeq(v, 9, 16), n - 1)

\* x[i] XOR encrypt(K, IV[0..8] ++ BE64(c0 + floor(i/16)))[i mod 16]
KeystreamXor(k, v, x) ==
    LET ks == Strict([n \in 1..NumChunks(x) |-> encrypt(k, CounterBlock(v, n))])
    IN  Strict([i \in 1..Len(x) |-> Xor(x[i], ks[((i - 1) \div 16) + 1][((i - 1) % 16) + 1])])

\* C18: for every key, IV and input X, encrypt_ctr and decrypt_ctr both
\* return X XORed with the keystream of the counter blocks
\* IV[0..8] ++ BE64(c0 + n), the first one being the IV itself, and
\* decrypt_ctr(K, IV, X) = encrypt_ctr(K, IV, X).
CtrKeystream ==
    \A j \in 1..Len(calls) :
        calls[j].op \in {"encrypt_ctr", "decrypt_ctr"} =>
            /\ calls[j].out = Ok(KeystreamXor(calls[j].key, calls[j].iv, calls[j].input))
            /\ CounterBlock(calls[j].iv, 1) = calls[j].iv
            /\ decrypt_ctr(calls[j].key, calls[j].iv, calls[j].input, overflow_checks)
                   = encrypt_ctr(calls[j].key, calls[j].iv, calls[j].input, overflow_checks)

\* the same for the calls that return: every returned output is the
\* keystream XOR, and decrypt_ctr and encrypt_ctr agree on every input
CtrKeystreamWhenReturned ==
    \A j \in 1..Len(calls) :
        calls[j].op \in {"encrypt_ctr", "decrypt_ctr"} =>
            /\ calls[j].out.kind = "ok"
                   => calls[j].out.val =
                          KeystreamXor(calls[j].key, calls[j].iv, calls[j].input)
            /\ decrypt_ctr(calls[j].key, calls[j].iv, calls[j].input, overflow_checks)
                   = encrypt_ctr(calls[j].key, calls[j].iv, calls[j].input, overflow_checks)

\* the counter block that produced the keystream of the full chunk n of a
\* returned call: the keystream is input XOR output, and decrypt under the
\* same key inverts the block cipher
FedCounterBlock(c, n) ==
    decrypt(c.key, XorBlock(Chunk(c.input, n), Chunk(c.out.val, n)))

\* the full 16-byte chunks of a buffer
FullChunks(buf) == 1..(Len(buf) \div 16)

\* C19: within one encrypt_ctr or decrypt_ctr call the counter block of
\* chunk n is the nonce followed by the initial counter advanced n - 1
\* times by one (as one 64-bit big-endian integer); the blocks of two
\* distinct chunks differ and their 8 nonce bytes are those of the IV.
CtrCounterAdvances ==
    \A j \in 1..Len(calls) :
        (calls[j].op \in {"encrypt_ctr", "decrypt_ctr"} /\ calls[j].out.kind = "ok") =>
            LET fed == [n \in FullChunks(calls[j].input) |-> FedCounterBlock(calls[j], n)]
            IN  /\ \A n \in DOMAIN fed :
                       /\ fed[n] = CounterBlock(calls[j].iv, n)
                       /\ SubSeq(fed[n], 1, 8) = SubSeq(calls[j].iv, 1, 8)
                       /\ n > 1 => SubSeq(fed[n], 9, 16) = BeInc(SubSeq(fed[n - 1], 9, 16))
                /\ \A n1, n2 \in DOMAIN fed : n1 # n2 => fed[n1] # fed[n2]

\* two full chunks under the IV whose counter ends in ff: the increment
\* carries into the next byte
CtrCounterAdvancesReached ==
    /\ Len(calls) = 1
    /\ calls[1].op = "encrypt_ctr"
    /\ calls[1].iv = CarryIv
    /\ calls[1].out.kind = "ok"
    /\ Len(calls[1].input) = 33
    /\ FedCounterBlock(calls[1], 1) = CarryIv
    /\ FedCounterBlock(calls[1], 2) = <<0, 1, 2, 3, 4, 5, 6, 7, 0, 0, 0, 0, 0, 0, 1, 0>>

\* C20: for every key, IV and plaintext P, encrypt_ctr returns len(P)
\* bytes, and encrypt_ecb and encrypt_cbc return 16 * (floor(len(P)/16) + 1)
\* bytes: a multiple of 16 that exceeds len(P) by 1 to 16.
OutputLengths ==
    \A j \in 1..Len(calls) :
        LET n == Len(calls[j].input)
            m == Len(calls[j].out.val)
        IN  /\ calls[j].op = "encrypt_ctr" => (calls[j].out.kind = "ok" /\ m = n)
            /\ calls[j].op \in {"encrypt_ecb", "encrypt_cbc"} =>
                   /\ calls[j].out.kind = "ok"
                   /\ m = 16 * ((n \div 16) + 1)
                   /\ m % 16 = 0
                   /\ m - n \in 1..16

\* the same, with the length of encrypt_ctr's output taken when it returns
OutputLengthsWhenReturned ==
    \A j \in 1..Len(calls) :
        LET n == Len(calls[j].input)
            m == Len(calls[j].out.val)
        IN  /\ (calls[j].op = "encrypt_ctr" /\ calls[j].out.kind = "ok") => m = n
            /\ calls[j].op \in {"encrypt_ecb", "encrypt_cbc"} =>
                   /\ calls[j].out.kind = "ok"
                   /\ m = 16 * ((n \div 16) + 1)
                   /\ m % 16 = 0
                   /\ m - n \in 1..16

\* C21: for every buffer P, the empty one included, pad(P, 16) has a length
\* that is a multiple of 16 and greater than len(P), and its last byte is
\* len(pad(P, 16)) - len(P).
PadLengthInvariant ==
    \A j \in 1..Len(calls) :
        (calls[j].op = "pad" /\ calls[j].block_size = 16) =>
            LET out == calls[j].out.val
            IN  /\ calls[j].out.kind = "ok"
                /\ Len(out) % 16 = 0
                /\ Len(out) > Len(calls[j].input)
                /\ out[Len(out)] = Len(out) - Len(calls[j].input)

PadLengthInvariantReached ==
    /\ Len(calls) = 1
    /\ calls[1].op = "pad"
    /\ calls[1].block_size = 16
    /\ calls[1].input = <<>>
    /\ Len(calls[1].out.val) = 16
    /\ calls[1].out.val[16] = 16

\* two different aligned 16-byte chunks of buf are equal
HasRepeatedChunk(buf) ==
    \E i1, i2 \in 1..(Len(buf) \div 16) :
        i1 # i2 /\ SubSeq(buf, 16 * i1 - 15, 16 * i1) = SubSeq(buf, 16 * i2 - 15, 16 * i2)

\* C22: detect_ecb(X) is true exactly when len(X) is a multiple of 16 and
\* two different aligned 16-byte chunks of X are equal; so it is false for
\* every X of another length, for the empty X and for pairwise distinct
\* chunks.
DetectEcbExact ==
    \A j \in 1..Len(calls) :
        calls[j].op = "detect_ecb" =>
            /\ calls[j].out =
                   Ok(Len(calls[j].input) % 16 = 0 /\ HasRepeatedChunk(calls[j].input))
            /\ Len(calls[j].input) % 16 # 0 => calls[j].out = Ok(FALSE)
            /\ calls[j].input = <<>> => calls[j].out = Ok(FALSE)

\* the repeated chunk is found although another chunk lies in between
DetectEcbExactReached ==
    /\ Len(calls) = 1
    /\ calls[1].op = "detect_ecb"
    /\ calls[1].input = ZerosRampZeros
    /\ calls[1].out = Ok(TRUE)

\* C23: when the padded plaintext holds the same 16-byte block at two
\* aligned positions, detect_ecb of the encrypt_ecb output is true.
EcbRepeatDetected ==
    (/\ Len(calls) = 2
     /\ calls[1].op = "encrypt_ecb"
     /\ calls[2].op = "detect_ecb"
     /\ calls[2].input = calls[1].out.val
     /\ HasRepeatedChunk(pad(calls[1].input, 16)))
        => calls[2].out = Ok(TRUE)

\* the repetition comes from the padding block
EcbRepeatDetectedReached ==
    /\ Len(calls) = 2
    /\ calls[1].op = "encrypt_ecb"
    /\ calls[1].input = SixteenSixteens
    /\ calls[2].op = "detect_ecb"
    /\ calls[2].input = calls[1].out.val
    /\ Len(calls[2].input) = 32
    /\ calls[2].out = Ok(TRUE)

\* C24: for the plaintext of 56 'A' and ".\n" under the key 000102..0f
\* and the all-zero IV, detect_ecb is false on the encrypt_cbc output and
\* on the encrypt_ctr output and true on the encrypt_ecb output.
DetectOnModes ==
    (/\ Len(calls) = 2
     /\ calls[2].op = "detect_ecb"
     /\ calls[1].input = AaaPlaintext
     /\ calls[1].key = TestKey
     /\ calls[2].input = calls[1].out.val)
        => /\ calls[1].op = "encrypt_ecb" => calls[2].out = Ok(TRUE)
           /\ (calls[1].op = "encrypt_cbc" /\ calls[1].iv = ZeroIv)
                  => calls[2].out = Ok(FALSE)
           /\ (calls[1].op = "encrypt_ctr" /\ calls[1].iv = ZeroIv)
                  => calls[2].out = Ok(FALSE)

DetectOnModesReached ==
    /\ Len(calls) = 2
    /\ calls[1].op = "encrypt_cbc"
    /\ calls[1].input = AaaPlaintext
    /\ calls[1].key = TestKey
    /\ calls[1].iv = ZeroIv
    /\ calls[2].op = "detect_ecb"
    /\ Len(calls[2].input) = 64
    /\ calls[2].out = Ok(FALSE)

\* what the operation of the call c returns for the arguments of c alone
ResultOf(c, checks) ==
    CASE c.op = "encrypt"     -> Ok(encrypt(c.key, c.input))
      [] c.op = "decrypt"     -> Ok(decrypt(c.key, c.input))
      [] c.op = "encrypt_ecb" -> Ok(encrypt_ecb(c.key, c.input))
      [] c.op = "decrypt_ecb" -> decrypt_ecb(c.key, c.input, checks)
      [] c.op = "encrypt_cbc" -> Ok(encrypt_cbc(c.key, c.iv, c.input))
      [] c.op = "decrypt_cbc" -> decrypt_cbc(c.key, c.iv, c.input, checks)
      [] c.op = "encrypt_ctr" -> encrypt_ctr(c.key, c.iv, c.input, checks)
      [] c.op = "decrypt_ctr" -> decrypt_ctr(c.key, c.iv, c.input, checks)

\* the caller's buffers and the log of returned calls change in no step
\* but by one more call at the end of the log
CallerKeeps ==
    /\ key' = key
    /\ iv' = iv
    /\ input' = input
    /\ overflow_checks' = overflow_checks
    /\ \/ calls' = calls
       \/ /\ Len(calls') = Len(calls) + 1
          /\ SubSeq(calls', 1, Len(calls)) = calls

\* the call that has just returned was handed the caller's key and IV and
\* one of the caller's buffers, and returned what its operation gives for
\* these arguments alone; an earlier call with the same arguments returned
\* the same
LastCallPure ==
    (locals.fn = "none" /\ calls # <<>>)
        => LET c == calls[Len(calls)]
           IN  /\ c.key = key
               /\ c.iv \in {iv, <<>>}
               /\ (c.iv = <<>>) = (c.op \in {"encrypt", "decrypt", "encrypt_ecb", "decrypt_ecb"})
               /\ c.out = ResultOf(c, overflow_checks)
               /\ \A j \in 1..(Len(calls) - 1) :
                      (calls[j].op = c.op /\ calls[j].input = c.input)
                          => calls[j].out = c.out

\* C25: through any sequence of calls of encrypt, decrypt and the six mode
\* operations, no step of a call changes the caller's key, IV or input
\* buffer or what earlier calls returned, and each call returns what its
\* operation gives for its own arguments alone, whatever was called before.
CallsFrame == [][CallerKeeps]_vars /\ []LastCallPure

\* encrypt_cbc of "Cooller" twice in a row: the second call chains from the
\* caller's IV again and returns what the first returned
CallsFrameReached ==
    /\ Len(calls) = 2
    /\ locals = NoCall
    /\ key = TestKey
    /\ iv = TestKey
    /\ input = Cooller
    /\ calls[1].op = "encrypt_cbc"
    /\ calls[2].op = "encrypt_cbc"
    /\ calls[1].input = Cooller
    /\ calls[2].input = Cooller
    /\ calls[1].out = Ok(CoollerCbc)
    /\ calls[2].out = Ok(CoollerCbc)
    /\ calls[2].iv = iv

\* the number of steps op among the first n of the log
StepCount(op, n) == Cardinality({i \in 1..n : calls[i].op = op})

\* the loop of encrypt_block has ended
EncryptDone ==
    /\ calls # <<>>
    /\ LastStep.fn = "encrypt_block"
    /\ LastStep.op = "add_round_key"
    /\ LastStep.a = Rounds(key)

\* the loop of decrypt_block has ended
DecryptDone ==
    /\ calls # <<>>
    /\ LastStep.fn = "decrypt_block"
    /\ LastStep.op = "add_round_key"
    /\ LastStep.a = 0

\* the log of encrypt_block: round keys 0, 1, .. in order, key 0 first,
\* then per round sub_bytes, shift_rows, mix_columns unless it is round
\* Nr, and the key of the round
EncryptOrder(nr, w) ==
    /\ calls[1].op = "add_round_key"
    /\ \A j \in 1..Len(calls) :
           LET s == calls[j]
               r == StepCount("add_round_key", j - 1)    \* the round, from 1
               p == calls[j - 1]
           IN  /\ j > 1 => s.before = p.after
               /\ s.op = "add_round_key" =>
                      /\ s.a = r
                      /\ s.a <= nr
                      /\ s.after = add_round_key(s.before, RoundKey(w, s.a))
                      /\ j > 1 => p.op = (IF r < nr THEN "mix_columns" ELSE "shift_rows")
               /\ s.op = "sub_bytes" =>
                      p.op = "add_round_key" /\ s.after = sub_bytes(s.before)
               /\ s.op = "shift_rows" =>
                      p.op = "sub_bytes" /\ s.after = shift_rows(s.before)
               /\ s.op = "mix_columns" =>
                      p.op = "shift_rows" /\ r < nr /\ s.after = mix_columns(s.before)
               /\ s.op \in {"add_round_key", "sub_bytes", "shift_rows", "mix_columns"}
    /\ StepCount("mix_columns", Len(calls)) <= nr - 1
    /\ EncryptDone =>
           /\ StepCount("add_round_key", Len(calls)) = nr + 1
           /\ StepCount("sub_bytes", Len(calls)) = nr
           /\ StepCount("shift_rows", Len(calls)) = nr
           /\ StepCount("mix_columns", Len(calls)) = nr - 1
           /\ StoreState(LastStep.after) = encrypt_block(w, nr, input)

\* the log of decrypt_block: round keys Nr, Nr-1, .. in order, key Nr
\* first, then per round inv_shift_rows, inv_sub_bytes, the key of the
\* round, and inv_mix_columns unless that key is key 0
DecryptOrder(nr, w) ==
    /\ calls[1].op = "add_round_key"
    /\ \A j \in 1..Len(calls) :
           LET s == calls[j]
               p == calls[j - 1]
           IN  /\ j > 1 => s.before = p.after
               /\ s.op = "add_round_key" =>
                      /\ s.a = nr - StepCount("add_round_key", j - 1)
                      /\ s.a >= 0
                      /\ s.after = add_round_key(s.before, RoundKey(w, s.a))
                      /\ j > 1 => p.op = "inv_sub_bytes"
               /\ s.op = "inv_shift_rows" =>
                      /\ p.op = (IF j = 2 THEN "add_round_key" ELSE "inv_mix_columns")
                      /\ s.after = inv_shift_rows(s.before)
               /\ s.op = "inv_sub_bytes" =>
                      p.op = "inv_shift_rows" /\ s.after = inv_sub_bytes(s.before)
               /\ s.op = "inv_mix_columns" =>
                      /\ p.op = "add_round_key"
                      /\ p.a \in 1..(nr - 1)
                      /\ s.after = inv_mix_columns(s.before)
               /\ s.op \in {"add_round_key", "inv_shift_rows", "inv_sub_bytes",
                              "inv_mix_columns"}
    /\ StepCount("inv_mix_columns", Len(calls)) <= nr - 1
    /\ DecryptDone =>
           /\ StepCount("add_round_key", Len(calls)) = nr + 1
           /\ StepCount("inv_shift_rows", Len(calls)) = nr
           /\ StepCount("inv_sub_bytes", Len(calls)) = nr
           /\ StepCount("inv_mix_columns", Len(calls)) = nr - 1
           /\ StoreState(LastStep.after) = decrypt_block(w, nr, input)

\* C26: encrypt_block applies the round keys 0, 1, .., Nr in that order,
\* each once, key 0 before the first round and key r+1 at the end of round
\* r, with sub_bytes then shift_rows in each of the Nr rounds and
\* mix_columns in all but the last; decrypt_block applies the round keys
\* Nr, Nr-1, .., 0 in that order, each once, and inv_mix_columns Nr-1
\* times, never after round key 0.
RoundStructure ==
    calls # <<>> =>
        IF calls[1].fn = "encrypt_block"
        THEN EncryptOrder(Rounds(key), KeySchedule(key))
        ELSE DecryptOrder(Rounds(key), KeySchedule(key))

\* encrypt_block under a 24-byte key after its last add_round_key
RoundStructureReached ==
    /\ EncryptDone
    /\ Len(key) = 24
    /\ Len(calls) = 48
    /\ LastStep.a = 12
    /\ calls[Len(calls) - 1].op = "shift_rows"
    /\ StepCount("mix_columns", Len(calls)) = 11

\* C27: when the last byte n of the buffer decrypt_ecb or decrypt_cbc has
\* decrypted is between 1 and 16, the call returns the buffer without its
\* last n bytes, whatever the other n - 1 trailing bytes are.
UnpadTrustsLastByte ==
    \A j \in 1..Len(calls) :
        (calls[j].op \in {"decrypt_ecb", "decrypt_cbc"}
            /\ Len(calls[j].input) > 0 /\ Len(calls[j].input) % 16 = 0)
        => LET result == Decrypted(calls[j])
               n      == result[Len(result)]
           IN  n \in 1..16 => calls[j].out = Ok(SubSeq(result, 1, Len(result) - n))

\* the first block of the ciphertext of f5 f6 .. ff 00 01 02 03 04: the
\* decrypted buffer ends in 01 02 03 04 and loses its last four bytes
UnpadTrustsLastByteReached ==
    /\ Len(calls) = 2
    /\ calls[1].op = "encrypt_ecb"
    /\ calls[1].input = Ramp(16, 245, 1)
    /\ calls[2].op = "decrypt_ecb"
    /\ calls[2].input = SubSeq(calls[1].out.val, 1, 16)
    /\ Decrypted(calls[2])[16] = 4
    /\ Decrypted(calls[2])[15] = 3
    /\ calls[2].out = Ok(Ramp(12, 245, 1))

\* a XOR b for polynomials of degree below 16
Xor16(a, b) == (256 * Xor(a \div 256, b \div 256)) + Xor(a % 256, b % 256)

\* the product of the polynomials x and y over GF(2), bit i of y at a time
RECURSIVE PolyMul(_, _, _)
PolyMul(x, y, i) ==
    IF i > 7 THEN 0
    ELSE Xor16(IF (y \div (2 ^ i)) % 2 = 1 THEN x * (2 ^ i) ELSE 0, PolyMul(x, y, i + 1))

\* the polynomial v of degree at most d reduced modulo 0x11B
RECURSIVE PolyMod(_, _)
PolyMod(v, d) ==
    IF d < 8 THEN v
    ELSE PolyMod(IF (v \div (2 ^ d)) % 2 = 1 THEN Xor16(v, 283 * (2 ^ (d - 8))) ELSE v, d - 1)

\* the product of x and y in GF(2^8) modulo 0x11B
GfMul(x, y) == PolyMod(PolyMul(x, y, 0), 14)

\* C28: for the byte x of the call and every byte y, dot(x, y) is the
\* product of x and y in GF(2^8) modulo 0x11B; xtime(x) is (x << 1) mod 256
\* XOR 0x1B when the high bit of x is set; the loop of dot makes exactly 8
\* passes, its mask becoming 0 in the eighth, and x, product and mask stay
\* in 0..255 throughout.
DotIsGfProduct ==
    \A j \in 1..Len(calls) :
        calls[j].op = "dot" =>
            LET x == calls[j].input[1]
            IN  /\ xtime(x) = Xor((2 * x) % 256, IF x >= 128 THEN 27 ELSE 0)
                /\ xtime(x) = GfMul(x, 2)
                /\ \A y \in Bytes :
                       LET passes == DotIterations(x, y, 0, 1)
                       IN  /\ calls[j].out.val[y + 1] = GfMul(x, y)
                           /\ dot(x, y) = calls[j].out.val[y + 1]
                           /\ Len(passes) = 8
                           /\ passes[8].mask = 0
                           /\ passes[8].product = dot(x, y)
                           /\ \A i \in 1..7 : passes[i].mask = 2 ^ i
                           /\ \A i \in 1..8 :
                                  /\ passes[i].x \in Bytes
                                  /\ passes[i].product \in Bytes
                                  /\ passes[i].mask \in Bytes

\* 0x57 * 0x83 = 0xc1 and 0x57 * 0x13 = 0xfe (FIPS-197, section 4.2)
DotIsGfProductReached ==
    /\ Len(calls) = 1
    /\ calls[1].op = "dot"
    /\ calls[1].input = <<87>>
    /\ calls[1].out.val[131 + 1] = 193
    /\ calls[1].out.val[19 + 1] = 254

\* C30: SBOX and INV_SBOX, indexed by high nibble then low nibble, are
\* inverse to each other on every byte, and inv_sub_bytes undoes sub_bytes
\* (and sub_bytes undoes inv_sub_bytes) on every state.
SboxInverse ==
    /\ \A x \in {input[1]} :
           /\ sbox_lookup(x) \in Bytes
           /\ inv_sbox_lookup(x) \in Bytes
           /\ inv_sbox_lookup(sbox_lookup(x)) = x
           /\ sbox_lookup(inv_sbox_lookup(x)) = x
           /\ INV_SBOX[(SBOX[(x \div 16) + 1][(x % 16) + 1] \div 16) + 1]
                      [(SBOX[(x \div 16) + 1][(x % 16) + 1] % 16) + 1] = x
    /\ (Len(calls) = 2 /\ calls[1].op \in {"sub_bytes", "inv_sub_bytes"}
            /\ calls[2].op \in {"sub_bytes", "inv_sub_bytes"})
           => /\ calls[2].op # calls[1].op
              /\ calls[2].input = calls[1].out.val
              /\ calls[2].out.val = calls[1].input

\* SBOX[0x53] = 0xed (FIPS-197, section 5.1.1) and back
SboxInverseReached ==
    /\ Len(calls) = 2
    /\ input = <<83>>
    /\ calls[1].op = "sub_bytes"
    /\ calls[1].input[1][1] = 83
    /\ calls[1].out.val[1][1] = 237
    /\ calls[2].op = "inv_sub_bytes"
    /\ calls[2].out.val = calls[1].input

\* C29: under the all-zero IV the first 16 bytes of encrypt_cbc(K, iv, P)
\* are the first 16 bytes of encrypt_ecb(K, P), and for P shorter than 16
\* bytes the two ciphertexts are the same; seen from either call.
CbcZeroIvFirstBlock ==
    \A j \in 1..Len(calls) :
        /\ (calls[j].op = "encrypt_cbc" /\ calls[j].iv = ZeroIv)
               => LET ecb == encrypt_ecb(calls[j].key, calls[j].input)
                  IN  /\ Len(calls[j].out.val) >= 16
                      /\ SubSeq(calls[j].out.val, 1, 16) = SubSeq(ecb, 1, 16)
                      /\ Len(calls[j].input) < 16 => calls[j].out.val = ecb
        /\ calls[j].op = "encrypt_ecb"
               => LET cbc == encrypt_cbc(calls[j].key, ZeroIv, calls[j].input)
                  IN  /\ Len(calls[j].out.val) >= 16
                      /\ SubSeq(calls[j].out.val, 1, 16) = SubSeq(cbc, 1, 16)
                      /\ Len(calls[j].input) < 16 => calls[j].out.val = cbc

\* 17 bytes under the zero IV: the first block is the ECB block, the second is not
CbcZeroIvFirstBlockReached ==
    /\ Len(calls) = 1
    /\ calls[1].op = "encrypt_cbc"
    /\ calls[1].iv = ZeroIv
    /\ calls[1].key = Ramp(16, 0, 1)
    /\ calls[1].input = Ramp(17, 245, 1)
    /\ Len(calls[1].out.val) = 32
    /\ SubSeq(calls[1].out.val, 1, 16) = encrypt(calls[1].key, Ramp(16, 245, 1))
    /\ SubSeq(calls[1].out.val, 17, 32) # SubSeq(encrypt_ecb(calls[1].key, calls[1].input), 17, 32)

====
